---- MODULE Spec2Model ----
(***************************************************************************)
(* Model of the IoT Open integration (custom_components/iotopen):          *)
(*   - IoTOpenMqttClient      (mqtt_client.py)  the command channel        *)
(*   - IoTOpenSwitch          (switch.py)       switch activation          *)
(*   - IoTOpenDataUpdateCoordinator (coordinator.py) the refresh cycle     *)
(* Strings that the code inspects (type, meta values, topics) are          *)
(* sequences of one-character strings; None is the empty option <<>> and   *)
(* a present value v is <<v>>.                                             *)
(***************************************************************************)
EXTENDS Integers, Sequences, FiniteSets, TLC

\* ------------------------------------------------------------------------
\* Bounds of the model
\* ------------------------------------------------------------------------
NumCallers == 2
MaxCalls == 2
MaxActivations == 2
MaxDrops == 1
MaxCycles == 1
MaxPending == 2
MaxEntryOps == 4

Callers == 1 .. NumCallers
NoOne == 0

None == << >>
Some(v) == << v >>

\* ------------------------------------------------------------------------
\* Character strings
\* ------------------------------------------------------------------------
Digits == [c \in {"0", "1", "2", "3", "4", "5", "6", "7", "8", "9"} |->
             CASE c = "0" -> 0 [] c = "1" -> 1 [] c = "2" -> 2 [] c = "3" -> 3
               [] c = "4" -> 4 [] c = "5" -> 5 [] c = "6" -> 6 [] c = "7" -> 7
               [] c = "8" -> 8 [] c = "9" -> 9]

IsDigit(c) == c \in DOMAIN Digits

RECURSIVE DigitsValue(_, _)
DigitsValue(s, acc) ==
    IF s = << >> THEN acc
    ELSE DigitsValue(Tail(s), acc * 10 + Digits[Head(s)])

RECURSIVE Strip(_)
Strip(s) ==
    IF s = << >> THEN s
    ELSE IF Head(s) = " " THEN Strip(Tail(s))
    ELSE IF s[Len(s)] = " " THEN Strip(SubSeq(s, 1, Len(s) - 1))
    ELSE s

\* int(value) of Python on a string: surrounding blanks stripped, an optional
\* sign, then decimal digits only; anything else raises ValueError (None here)
IntOfStr(raw) ==
    LET s == Strip(raw)
        signed == s # << >> /\ Head(s) \in {"-", "+"}
        body == IF signed THEN Tail(s) ELSE s
    IN  IF body # << >> /\ \A i \in 1 .. Len(body) : IsDigit(body[i])
        THEN Some(IF signed /\ Head(s) = "-"
                  THEN 0 - DigitsValue(body, 0) ELSE DigitsValue(body, 0))
        ELSE None

LowerChar(c) ==
    CASE c = "A" -> "a" [] c = "C" -> "c" [] c = "H" -> "h" [] c = "I" -> "i"
      [] c = "L" -> "l" [] c = "M" -> "m" [] c = "R" -> "r" [] c = "S" -> "s"
      [] c = "T" -> "t" [] c = "W" -> "w" [] c = "E" -> "e" [] c = "O" -> "o"
      [] c = "N" -> "n" [] c = "U" -> "u" [] c = "Y" -> "y"
      [] OTHER -> c

Lower(s) == [i \in 1 .. Len(s) |-> LowerChar(s[i])]

StartsWith(s, p) == Len(s) >= Len(p) /\ SubSeq(s, 1, Len(p)) = p

EndsWith(s, p) ==
    Len(s) >= Len(p) /\ SubSeq(s, Len(s) - Len(p) + 1, Len(s)) = p

Contains(s, p) ==
    \E i \in 1 .. (Len(s) - Len(p) + 1) : SubSeq(s, i, i + Len(p) - 1) = p

\* dict.get(key): the option of the value stored under key
Get(meta, key) == IF key \in DOMAIN meta THEN Some(meta[key]) ELSE None

\* ------------------------------------------------------------------------
\* String constants of the code and of the modelled installation
\* ------------------------------------------------------------------------
STR_switch == << "s", "w", "i", "t", "c", "h" >>
STR__switch == << "_", "s", "w", "i", "t", "c", "h" >>
STR_alarm_ == << "a", "l", "a", "r", "m", "_" >>
STR_1 == << "1" >>
STR_true == << "t", "r", "u", "e" >>
STR_yes == << "y", "e", "s" >>
STR_on == << "o", "n" >>

TopicA == << "t", "1" >>
TopicB == << "t", "2" >>
TypeRelaySwitch == << "r", "e", "l", "a", "y", "_", "S", "w", "i", "t", "c", "h" >>
TypeTemperature == << "t", "e", "m", "p" >>
TypeAlarmSmoke == << "a", "l", "a", "r", "m", "_", "s", "m", "o", "k", "e" >>

\* ------------------------------------------------------------------------
\* coordinator.py: classification and visibility
\* ------------------------------------------------------------------------
is_switch_function(state) ==
    LET t == Lower(state.type)
    IN  \/ t = STR_switch
        \/ EndsWith(t, STR__switch)
        \/ "topic_write" \in DOMAIN state.meta

\* mutant: the binary-sensor rule excludes only what the switch rule matches
\* by type
is_binary_functionExactSwitchGuard(state) ==
    LET t == Lower(state.type)
    IN  IF t = STR_switch \/ EndsWith(t, STR__switch) THEN FALSE
        ELSE IF StartsWith(t, STR_alarm_) THEN TRUE
        ELSE "state_alarm" \in DOMAIN state.meta
             /\ "state_no_alarm" \in DOMAIN state.meta

\* mutant: the binary-sensor rule lacks the exclusion of switch types
is_binary_functionNoSwitchGuard(state) ==
    LET t == Lower(state.type)
    IN  IF StartsWith(t, STR_alarm_) THEN TRUE
        ELSE "state_alarm" \in DOMAIN state.meta
             /\ "state_no_alarm" \in DOMAIN state.meta

is_binary_function(state) ==
    LET t == Lower(state.type)
    IN  IF Contains(t, STR_switch) THEN FALSE
        ELSE IF StartsWith(t, STR_alarm_) THEN TRUE
        ELSE "state_alarm" \in DOMAIN state.meta
             /\ "state_no_alarm" \in DOMAIN state.meta

\* mutant: the value is compared without stripping it
TruthyNoStrip(v) ==
    LET s == Lower(IF v = None THEN << >> ELSE v[1])
    IN  s \in {STR_1, STR_true, STR_yes, STR_on}

\* _truthy of is_exposed_to_ha; v is the option meta.get(key) and an absent
\* key reads as the default ""
Truthy(v) ==
    LET s == Lower(Strip(IF v = None THEN << >> ELSE v[1]))
    IN  s \in {STR_1, STR_true, STR_yes, STR_on}

\* mutant: only ha.hidden is honoured
is_exposed_to_haHiddenOnly(meta) ==
    IF DOMAIN meta = {} THEN TRUE
    ELSE IF Truthy(Get(meta, "ha.hidden")) THEN FALSE
    ELSE TRUE

is_exposed_to_ha(meta) ==
    IF DOMAIN meta = {} THEN TRUE
    ELSE IF Truthy(Get(meta, "ha.disabled")) THEN FALSE
    ELSE IF Truthy(Get(meta, "ha.hidden")) THEN FALSE
    ELSE TRUE

_parse_device_id(raw) == IF raw = None THEN None ELSE IntOfStr(raw[1])


\* ------------------------------------------------------------------------
\* coordinator.py: the refresh cycle's filter, merge and build steps
\* ------------------------------------------------------------------------
\* mutant: the first record of a topic is kept
PutItemFirstWins(d, k, v) ==
    IF \E i \in 1 .. Len(d) : d[i].topic = k
    THEN d
    ELSE Append(d, [topic |-> k, func |-> v])

\* dict assignment d[k] = v on an insertion-ordered dict, kept as a sequence
\* of [topic, func] pairs
PutItem(d, k, v) ==
    IF \E i \in 1 .. Len(d) : d[i].topic = k
    THEN [i \in 1 .. Len(d) |-> IF d[i].topic = k THEN [topic |-> k, func |-> v]
                                 ELSE d[i]]
    ELSE Append(d, [topic |-> k, func |-> v])

\* mutant: only an absent topic_read is skipped
NoTopicOnlyAbsent(topic) == topic = None

\* "if not topic": meta.get("topic_read") is None or the empty string
NoTopic(topic) == topic = None \/ topic[1] = << >>

\* the loop over functionx_raw: topics and function_by_topic
RECURSIVE FilterFunctions(_, _)
FilterFunctions(raw, acc) ==
    IF raw = << >> THEN acc
    ELSE LET item == Head(raw)
             meta == item.meta
             topic == Get(meta, "topic_read")
         IN  IF ~ is_exposed_to_ha(meta) THEN FilterFunctions(Tail(raw), acc)
             ELSE IF NoTopic(topic)
                  THEN FilterFunctions(Tail(raw), acc)
             ELSE FilterFunctions(Tail(raw),
                    [topics |-> Append(acc.topics, topic[1]),
                     function_by_topic |->
                         PutItem(acc.function_by_topic, topic[1], item)])

EmptyFilter == [topics |-> << >>, function_by_topic |-> << >>]

\* sample.get("timestamp") or 0
TsOrZero(sample) ==
    IF "timestamp" \in DOMAIN sample /\ sample.timestamp # None
    THEN sample.timestamp[1] ELSE 0

\* the loop over status_raw; ok = FALSE when the comparison ts >= None raises
\* TypeError (the retained sample carries a null timestamp)
RECURSIVE MergeStatus(_, _)
MergeStatus(status_raw, acc) ==
    IF status_raw = << >> \/ ~ acc.ok THEN acc
    ELSE LET sample == Head(status_raw)
             topic == Get(sample, "topic")
             m == acc.status_by_topic
         IN  IF topic = None \/ topic[1] = None \/ topic[1] = Some(<< >>)
             THEN MergeStatus(Tail(status_raw), acc)
             ELSE LET t == topic[1][1]
                      ts == TsOrZero(sample)
                  IN  IF t \notin DOMAIN m
                      THEN MergeStatus(Tail(status_raw),
                             [acc EXCEPT !.status_by_topic = (t :> sample) @@ m])
                      ELSE IF "timestamp" \in DOMAIN m[t] /\ m[t].timestamp = None
                      THEN [acc EXCEPT !.ok = FALSE]
                      ELSE IF ts >= TsOrZero(m[t])
                      THEN MergeStatus(Tail(status_raw),
                             [acc EXCEPT !.status_by_topic = (t :> sample) @@ m])
                      ELSE MergeStatus(Tail(status_raw), acc)

EmptyStatus == [ok |-> TRUE, status_by_topic |-> << >>]

\* mutant: an entry without a sample of its own takes that of another topic
SampleFieldForeign(status_by_topic, topic, key) ==
    LET t == IF topic \in DOMAIN status_by_topic \/ DOMAIN status_by_topic = {}
             THEN topic
             ELSE CHOOSE u \in DOMAIN status_by_topic : TRUE
    IN  IF t \notin DOMAIN status_by_topic THEN None
        ELSE IF key \in DOMAIN status_by_topic[t]
             THEN status_by_topic[t][key] ELSE None

\* status.get(key) of a retained sample: None when absent or null
SampleField(status_by_topic, topic, key) ==
    IF topic \notin DOMAIN status_by_topic THEN None
    ELSE IF key \in DOMAIN status_by_topic[topic]
         THEN status_by_topic[topic][key] ELSE None

\* the installation the entry is configured for
InstallationId == 55

\* mutant: the entry carries another id than the key it is stored under
FunctionStateWrongId(topic, func, status_by_topic) ==
    [function_id |-> func.id + 1,
     installation_id |-> IF "installation_id" \in DOMAIN func
                         THEN func.installation_id ELSE InstallationId,
     type |-> func.type,
     topic_read |-> topic,
     last_value |-> SampleField(status_by_topic, topic, "value"),
     last_timestamp |-> SampleField(status_by_topic, topic, "timestamp"),
     device_id |-> _parse_device_id(Get(func.meta, "device_id")),
     meta |-> func.meta]

FunctionState(topic, func, status_by_topic) ==
    [function_id |-> func.id,
     installation_id |-> IF "installation_id" \in DOMAIN func
                         THEN func.installation_id ELSE InstallationId,
     type |-> func.type,
     topic_read |-> topic,
     last_value |-> SampleField(status_by_topic, topic, "value"),
     last_timestamp |-> SampleField(status_by_topic, topic, "timestamp"),
     device_id |-> _parse_device_id(Get(func.meta, "device_id")),
     meta |-> func.meta]

\* mutant: a function without a sample gets no entry
RECURSIVE BuildResultOnlySampled(_, _, _)
BuildResultOnlySampled(function_by_topic, status_by_topic, result) ==
    IF function_by_topic = << >> THEN result
    ELSE LET e == Head(function_by_topic)
             st == FunctionState(e.topic, e.func, status_by_topic)
         IN  BuildResultOnlySampled(
                 Tail(function_by_topic), status_by_topic,
                 IF e.topic \in DOMAIN status_by_topic
                 THEN (e.func.id :> st) @@ result ELSE result)

\* the loop over function_by_topic.items(): result keyed by function id
RECURSIVE BuildResult(_, _, _)
BuildResult(function_by_topic, status_by_topic, result) ==
    IF function_by_topic = << >> THEN result
    ELSE LET e == Head(function_by_topic)
             st == FunctionState(e.topic, e.func, status_by_topic)
         IN  BuildResult(Tail(function_by_topic), status_by_topic,
                         (e.func.id :> st) @@ result)

\* ------------------------------------------------------------------------
\* api.py: one request to the gateway
\* ------------------------------------------------------------------------
\* str(n) of a non-negative integer, as a sequence of digit characters
DigitChar(d) == << "0", "1", "2", "3", "4", "5", "6", "7", "8", "9" >>[d + 1]

RECURSIVE Decimal(_)
Decimal(n) ==
    IF n < 10 THEN << DigitChar(n) >>
    ELSE Append(Decimal(n \div 10), DigitChar(n % 10))

\* texts are sequences of fragments; a text carries another when the other's
\* fragments occur in it in a row
Carries(text, part) ==
    \E i \in 1 .. (Len(text) - Len(part) + 1) :
        SubSeq(text, i, i + Len(part) - 1) = part

DEFAULT_BASE_URL == "https://lynx.iotopen.se"
PATH_FUNCTIONX_LIST(installation_id) ==
    << "/api/v2/functionx/" >> \o Decimal(installation_id)
PATH_STATUS(installation_id) ==
    << "/api/v2/status/" >> \o Decimal(installation_id)

\* self._base.with_path(path)
with_path(path) == << DEFAULT_BASE_URL >> \o path

\* values a response body parses to
JsonNone == [tag |-> "none", items |-> << >>]
JsonDict == [tag |-> "dict", items |-> << >>]
JsonList(items) == [tag |-> "list", items |-> items]

\* what the HTTP session does with one request: a ClientError, no answer
\* within the timeout, or a response
NoExchange ==
    [kind |-> "none", status |-> 0, json |-> FALSE, text |-> "",
     body |-> JsonNone]
ClientErrorExchange ==
    [kind |-> "client_error", status |-> 0, json |-> FALSE,
     text |-> "Server disconnected", body |-> JsonNone]
TimeoutExchange ==
    [kind |-> "timeout", status |-> 0, json |-> FALSE, text |-> "",
     body |-> JsonNone]
ResponseExchanges ==
    {x \in [kind : {"response"}, status : {200, 404, 500}, json : BOOLEAN,
            text : {"", "no such installation"},
            body : {JsonNone, JsonDict, JsonList(<< >>)}] :
        /\ x.json => x.text # "" /\ x.body # JsonNone
        /\ ~ x.json => x.body = JsonNone}
Exchanges == {ClientErrorExchange, TimeoutExchange} \cup ResponseExchanges

IoTOpenApiError(message) ==
    [class |-> "IoTOpenApiError", message |-> message]

Returned(v) == [raised |-> FALSE, value |-> v, error |-> None]
Raised(e) == [raised |-> TRUE, value |-> JsonNone, error |-> Some(e)]

\* mutant: a timeout is not caught and leaves the request as it is
_async_request_jsonNoTimeoutCatch(path, x) ==
    LET url == with_path(path)
    IN  IF x.kind = "client_error"
        THEN Raised(IoTOpenApiError(
                 << "Error talking to IoT Open: ", x.text >>))
        ELSE IF x.kind = "timeout"
        THEN Raised([class |-> "TimeoutError", message |-> << x.text >>])
        ELSE IF x.status >= 400
        THEN Raised(IoTOpenApiError(
                 << "HTTP " >> \o Decimal(x.status) \o << " from " >>
                   \o url \o << ": ", x.text >>))
        ELSE IF x.json THEN Returned(x.body)
        ELSE IF x.text = "" THEN Returned(JsonNone)
        ELSE Returned(JsonDict)

_async_request_json(path, x) ==
    LET url == with_path(path)
    IN  IF x.kind \in {"client_error", "timeout"}
        THEN Raised(IoTOpenApiError(
                 << "Error talking to IoT Open: ", x.text >>))
        ELSE IF x.status >= 400
        THEN Raised(IoTOpenApiError(
                 << "HTTP " >> \o Decimal(x.status) \o << " from " >>
                   \o url \o << ": ", x.text >>))
        ELSE IF x.json THEN Returned(x.body)
        ELSE IF x.text = "" THEN Returned(JsonNone)
        ELSE Returned(JsonDict)

async_list_functionx(installation_id, x) ==
    LET r == _async_request_json(PATH_FUNCTIONX_LIST(installation_id), x)
    IN  IF r.raised THEN r
        ELSE IF r.value.tag # "list"
        THEN Raised(IoTOpenApiError(
                 << "Unexpected FunctionX list response type" >>))
        ELSE r

async_get_status_for_topics(installation_id, topic_list, x) ==
    IF topic_list = << >> THEN Returned(JsonList(<< >>))
    ELSE LET r == _async_request_json(PATH_STATUS(installation_id), x)
         IN  IF r.raised THEN r
             ELSE IF r.value.tag # "list"
             THEN Raised(IoTOpenApiError(
                      << "Unexpected status response type" >>))
             ELSE r

\* ------------------------------------------------------------------------
\* switch.py: on/off values and the optimistic patch
\* ------------------------------------------------------------------------
_parse_int(value, default) ==
    IF value = None THEN default
    ELSE IF IntOfStr(value[1]) = None THEN default ELSE IntOfStr(value[1])[1]

_compute_on_off_values(state) ==
    [state_on |-> _parse_int(Get(state.meta, "state_on"), 255),
     state_off |-> _parse_int(Get(state.meta, "state_off"), 0)]

\* _value_to_bool on the integers a snapshot entry holds: None is off, the
\* switch's own on value is tested before its off value, any other value is
\* on when it is not zero
_value_to_bool(value, state_on, state_off) ==
    IF value = None THEN FALSE
    ELSE IF value[1] = state_on THEN TRUE
    ELSE IF value[1] = state_off THEN FALSE
    ELSE value[1] # 0

\* IoTOpenSwitch.is_on of the entity sw of function fid over the snapshot d
is_on(d, sw, fid) ==
    IF fid \notin DOMAIN d THEN FALSE
    ELSE _value_to_bool(d[fid].last_value, sw.state_on, sw.state_off)

\* str.lstrip("/")
RECURSIVE LStripSlash(_)
LStripSlash(s) ==
    IF s # << >> /\ Head(s) = "/" THEN LStripSlash(Tail(s)) ELSE s

\* __init__.py: the prefix derived from the MQTT username "box:2086", only
\* when an MQTT host is configured
RECURSIVE AfterColon(_)
AfterColon(s) ==
    IF s = << >> THEN None
    ELSE IF Head(s) = ":" THEN Some(Tail(s))
    ELSE AfterColon(Tail(s))

mqtt_prefix(host_configured, username) ==
    IF ~ host_configured THEN None
    ELSE LET suffix == AfterColon(username)
         IN  IF /\ suffix # None
                /\ suffix[1] # << >>
                /\ \A i \in 1 .. Len(suffix[1]) : IsDigit(suffix[1][i])
             THEN suffix ELSE None

\* mutant: topic_write is prefixed as it is, leading "/" included
_topic_setNoLstrip(state, prefix) ==
    LET raw == Get(state.meta, "topic_write")
        topic_write_meta == Strip(IF raw = None THEN << >> ELSE raw[1])
        default_prefix ==
            IF prefix # None /\ prefix[1] # << >> THEN prefix[1]
            ELSE Decimal(state.installation_id)
    IN  IF topic_write_meta # << >>
        THEN IF /\ IsDigit(topic_write_meta[1])
                /\ Contains(topic_write_meta, << "/" >>)
             THEN topic_write_meta
             ELSE default_prefix \o << "/" >> \o topic_write_meta
        ELSE default_prefix \o << "/", "s", "e", "t", "/" >>
               \o LStripSlash(state.topic_read)

\* IoTOpenSwitch.__init__: the write topic of the switch
_topic_set(state, prefix) ==
    LET raw == Get(state.meta, "topic_write")
        topic_write_meta == Strip(IF raw = None THEN << >> ELSE raw[1])
        default_prefix ==
            IF prefix # None /\ prefix[1] # << >> THEN prefix[1]
            ELSE Decimal(state.installation_id)
    IN  IF topic_write_meta # << >>
        THEN IF /\ IsDigit(topic_write_meta[1])
                /\ Contains(topic_write_meta, << "/" >>)
             THEN topic_write_meta
             ELSE default_prefix \o << "/" >> \o LStripSlash(topic_write_meta)
        ELSE default_prefix \o << "/", "s", "e", "t", "/" >>
               \o LStripSlash(state.topic_read)

\* mutant: the activation leaves the snapshot alone
PatchLastValueNever(d, fid, value) == d

\* mutant: the activation also resets the time of the last sample
PatchLastValueAndStamp(d, fid, value) ==
    IF fid \in DOMAIN d
    THEN [d EXCEPT ![fid].last_value = Some(value),
                   ![fid].last_timestamp = None]
    ELSE d

\* state = self._get_state(); if state is not None: state.last_value = value
PatchLastValue(d, fid, value) ==
    IF fid \in DOMAIN d THEN [d EXCEPT ![fid].last_value = Some(value)] ELSE d

\* ------------------------------------------------------------------------
\* The modelled installation: function records and status samples the
\* gateway can return
\* ------------------------------------------------------------------------
FnSwitch ==
    [id |-> 1, type |-> TypeRelaySwitch,
     meta |-> [topic_read |-> TopicA, topic_write |-> << "w" >>]]
FnSwitchHidden ==
    [id |-> 1, type |-> TypeRelaySwitch,
     meta |-> ("ha.hidden" :> STR_true) @@ [topic_read |-> TopicA]]
\* the switch with the on/off values its meta can carry: absent, the same
\* number twice, the two numbers swapped
StateValues == { << >>, << "0" >>, << "1" >> }
FnSwitchWith(on, off) ==
    [id |-> 1, type |-> TypeRelaySwitch,
     meta |-> [k \in {"topic_read", "topic_write"}
                      \cup (IF on = << >> THEN {} ELSE {"state_on"})
                      \cup (IF off = << >> THEN {} ELSE {"state_off"}) |->
                 CASE k = "topic_read" -> TopicA
                   [] k = "topic_write" -> << "w" >>
                   [] k = "state_on" -> on
                   [] OTHER -> off]]
SwitchRecords == { FnSwitchWith(on, off) : on, off \in StateValues }

FnSensor ==
    [id |-> 2, type |-> TypeTemperature, meta |-> [topic_read |-> TopicB]]

FunctionLists ==
    { << FnSwitch, FnSensor >>, << FnSwitch >>, << FnSwitchHidden >> }

Samples ==
    { [topic |-> Some(TopicA), value |-> Some(0), timestamp |-> Some(1)],
      [topic |-> Some(TopicB), value |-> Some(7), timestamp |-> Some(1)] }

MaxBatch == 1
StatusBatches == UNION { [1 .. n -> Samples] : n \in 0 .. MaxBatch }

\* further records of the installation: disabled, hidden, shown despite a
\* visibility key, without a usable topic_read, sharing the topic of FnSwitch
FnDisabled ==
    [id |-> 3, type |-> TypeTemperature,
     meta |-> ("ha.disabled" :> STR_yes) @@ [topic_read |-> TopicA]]
FnHiddenOn ==
    [id |-> 9, type |-> TypeTemperature,
     meta |-> ("ha.hidden" :> << " ", "O", "N", " " >>)
                @@ [topic_read |-> TopicA]]
FnShown ==
    [id |-> 7, type |-> TypeTemperature,
     meta |-> ("ha.hidden" :> << "n", "o" >>) @@ [topic_read |-> TopicB]]
FnDisabledUpper ==
    [id |-> 10, type |-> TypeTemperature,
     meta |-> ("ha.disabled" :> << "T", "R", "U", "E" >>)
                @@ [topic_read |-> TopicB]]
FnSensorTwin ==
    [id |-> 2, type |-> TypeTemperature, meta |-> [topic_read |-> TopicA]]
FnNoTopic ==
    [id |-> 4, type |-> TypeTemperature, meta |-> [name |-> << "n" >>]]
FnNoMeta == [id |-> 8, type |-> TypeTemperature, meta |-> << >>]
FnEmptyTopic ==
    [id |-> 5, type |-> TypeTemperature, meta |-> [topic_read |-> << >>]]
FnDup == [id |-> 6, type |-> TypeTemperature, meta |-> [topic_read |-> TopicA]]

CycleLists ==
    FunctionLists \cup
    { << >>,
      << FnDisabled, FnSensor >>, << FnHiddenOn, FnShown >>,
      << FnSwitchHidden, FnDisabled >>,
      << FnNoTopic, FnEmptyTopic >>, << FnNoMeta, FnSensor >>,
      << FnEmptyTopic, FnSwitch >>, << FnDisabledUpper, FnSwitch >>,
      << FnSensor, FnSensorTwin >>,
      << FnSwitch, FnDup >>, << FnDup, FnSwitch >>,
      << FnSwitch, FnSensor, FnDup >>, << FnSwitchHidden, FnDup >> }

\* further samples: a later one, a tie, a null timestamp, no timestamp, no
\* topic
CycleSamples ==
    Samples \cup
    { [topic |-> Some(TopicA), value |-> Some(5), timestamp |-> Some(2)],
      [topic |-> Some(TopicA), value |-> Some(9), timestamp |-> Some(1)],
      [topic |-> Some(TopicA), value |-> Some(3), timestamp |-> None],
      [topic |-> Some(TopicA), value |-> Some(4)],
      [value |-> Some(8), timestamp |-> Some(9)] }

MaxCycleBatch == 2
CycleBatches == UNION { [1 .. n -> CycleSamples] : n \in 0 .. MaxCycleBatch }

\* types and meta keys over which the classification rules are exercised
TypeSwitch == << "s", "w", "i", "t", "c", "h" >>
TypeSwitchUpper == << "S", "W", "I", "T", "C", "H" >>
TypeSwitchMixed == << "S", "w", "i", "t", "c", "H" >>
TypeSwitchboard ==
    << "s", "w", "i", "t", "c", "h", "b", "o", "a", "r", "d" >>
TypeAlarmSwitch ==
    << "A", "l", "a", "r", "m", "_", "s", "w", "i", "t", "c", "h" >>
TypeAlarmSwitches ==
    << "a", "l", "a", "r", "m", "_", "s", "w", "i", "t", "c", "h", "e", "s" >>
SwitchSpellings == {TypeSwitch, TypeSwitchUpper, TypeSwitchMixed}
ClassTypes ==
    SwitchSpellings \cup {TypeRelaySwitch, TypeSwitchboard, TypeAlarmSwitch,
                          TypeAlarmSwitches,
                          TypeAlarmSmoke, TypeTemperature}
ClassKeys == {"topic_write", "state_alarm", "state_no_alarm"}
MetaOf(K) ==
    [k \in K \cup {"topic_read"} |->
        IF k = "topic_read" THEN TopicA ELSE STR_1]
ClassRecords ==
    {[id |-> 1, type |-> t, meta |-> MetaOf(K)] :
        t \in ClassTypes, K \in SUBSET ClassKeys}

\* MQTT usernames of the entry: with a numeric suffix, without a colon,
\* with a suffix that is no number, none
UsernameBox == << "b", ":", "2", "0" >>
Usernames ==
    {UsernameBox, << "b" >>, << "b", ":", "x" >>, << >>}

\* switch functions over which the write topic is exercised
TopicWrites ==
    { << >>, << " ", " " >>, << "s", "/", "x" >>, << "/", "s", "/", "x" >>,
      << "2", "0", "/", "s", "/", "x" >>, << "2", "0" >>,
      << "9", "x", "/", "y" >>, << " ", "1", "/", "a", " " >>, << "w" >> }
TopicReads == {TopicA, << "/", "t", "1" >>}
TopicRecords ==
    {[id |-> 1, type |-> TypeRelaySwitch, meta |-> [topic_read |-> r]] :
        r \in TopicReads}
    \cup
    {[id |-> 1, type |-> TypeRelaySwitch,
      meta |-> [topic_read |-> r, topic_write |-> w]] :
        r \in TopicReads, w \in TopicWrites}

ActivationOps == {"turn_on", "turn_off"}
PublishOps == {"publish", "turn_on", "turn_off"}
ConnectOps == {"connect"} \cup PublishOps

\* ------------------------------------------------------------------------
\* State
\* ------------------------------------------------------------------------
VARIABLES
    client,          \* self._client: "none" or "created"
    connected,       \* self._connected (asyncio.Event)
    lockHolder,      \* holder of self._connect_lock, NoOne when free
    waiters,         \* callers queued on self._connect_lock
    link,            \* paho's socket: "down", "sent" (CONNECT sent), "up"
    loopRunning,     \* paho's background network thread is running
    callbacks,       \* call_soon_threadsafe queue: "set" / "clear"
    tlsConfigured,   \* client.tls_set() has configured the client
    useTls,          \* self._use_tls
    mqttConfigured,  \* the switches hold a client (self._mqtt is not None)
    mqtt_username,   \* entry.data[CONF_MQTT_USERNAME] or ""
    switches,        \* switch entities: function id -> on/off values
    sensors,         \* function ids of the sensor entities
    binary_sensors,  \* function ids of the binary_sensor entities
    loaded,          \* platforms whose async_setup_entry has run
    hass_data,       \* hass.data[DOMAIN]: None or the keys of the dict
    entry_state,     \* state of each config entry in Home Assistant
    entry_ops,       \* set-ups and unloads started so far
    call,            \* per caller: position and locals of its current call
    calls,           \* calls started so far
    drops,           \* broker-side drops and refusals so far
    data,            \* coordinator.data, the published snapshot
    cycle,           \* position of _async_update_data
    gateway,         \* the awaited gateway request: "idle", "pending", "error"
    topics,          \* cycle-local topic list of the status request
    function_by_topic, \* cycle-local mapping kept across the status request
    functionx_raw,   \* the function list the current or last cycle received
    status_batch,    \* status_raw: the samples the current or last cycle received
    status_by_topic, \* cycle-local merged samples of the current or last cycle
    last_update,     \* how the last cycle ended
    cycles,          \* refresh cycles started so far
    exchange,        \* what the session did with the request that failed
    api_error        \* the exception the failed request has raised

chanVars == << client, connected, lockHolder, waiters, link, loopRunning,
               callbacks, tlsConfigured >>
entryVars == << hass_data, entry_state, entry_ops >>
cfgVars == << useTls, mqttConfigured, mqtt_username, switches, sensors,
             binary_sensors, loaded, entryVars >>
apiVars == << exchange, api_error >>
coordVars == << cycle, gateway, topics, function_by_topic, functionx_raw,
                status_batch, status_by_topic, last_update, cycles, apiVars >>
vars == << chanVars, cfgVars, call, calls, drops, data, coordVars >>

IdleCall ==
    [pc |-> "idle", op |-> "none", fid |-> 0, value |-> 0, conn |-> "none",
     rc |-> None, acked |-> FALSE, res |-> "none", waited |-> FALSE]

\* entities created by switch.async_setup_entry from the first snapshot
SwitchEntities(d, prefix) ==
    [f \in {g \in DOMAIN d : is_switch_function(d[g])} |->
        [state_on |-> _compute_on_off_values(d[f]).state_on,
         state_off |-> _compute_on_off_values(d[f]).state_off,
         topic_set |-> _topic_set(d[f], prefix)]]

\* entities created by binary_sensor.async_setup_entry
BinarySensorEntities(d) == {f \in DOMAIN d : is_binary_function(d[f])}

\* entities created by sensor.async_setup_entry
SensorEntities(d) ==
    {f \in DOMAIN d : ~ (is_binary_function(d[f]) \/ is_switch_function(d[f]))}

Platforms == {"sensor", "binary_sensor", "switch"}

FirstSnapshot(raw) ==
    BuildResult(FilterFunctions(raw, EmptyFilter).function_by_topic,
                << >>, << >>)

InitChannel ==
    /\ client = "none"
    /\ connected = FALSE
    /\ lockHolder = NoOne
    /\ waiters = << >>
    /\ link = "down"
    /\ loopRunning = FALSE
    /\ callbacks = << >>
    /\ tlsConfigured = FALSE
    /\ useTls \in BOOLEAN
    /\ call = [c \in Callers |-> IdleCall]
    /\ calls = 0
    /\ drops = 0

InitCoordinator ==
    /\ cycle = "idle"
    /\ gateway = "idle"
    /\ topics = << >>
    /\ function_by_topic = << >>
    /\ functionx_raw = << >>
    /\ status_batch = << >>
    /\ status_by_topic = << >>
    /\ last_update = "ok"
    /\ cycles = 0
    /\ exchange = NoExchange
    /\ api_error = None

\* ------------------------------------------------------------------------
\* __init__.py: the integration's data in hass.data and the config entries
\* ------------------------------------------------------------------------
EntryIds == {"e1", "e2"}
KEY_SERVICES_REGISTERED == "_services_registered"
KEY_STOP_LISTENER_REGISTERED == "_stop_listener_registered"

\* hass.data.setdefault(DOMAIN, {}): the dict that is there afterwards
setdefault_domain(hd) == IF hd = None THEN {} ELSE hd[1]

\* what async_setup_entry leaves in hass.data once the entry is set up: its
\* runtime data and the two flags of _ensure_services_registered and
\* _ensure_stop_listener_registered
DomainDataWith(hd, e) ==
    Some(setdefault_domain(hd)
           \cup {e, KEY_SERVICES_REGISTERED, KEY_STOP_LISTENER_REGISTERED})

\* domain_entries.pop(entry_id); if not domain_entries: hass.data.pop(DOMAIN)
DomainDataWithout(hd, e) ==
    LET domain_entries == setdefault_domain(hd) \ {e}
    IN  IF domain_entries = {} THEN None ELSE Some(domain_entries)

\* one entry is set up and no other
OneEntrySetUp ==
    /\ hass_data = DomainDataWith(None, "e1")
    /\ entry_state = [e \in EntryIds |->
                        IF e = "e1" THEN "loaded" ELSE "not_loaded"]
    /\ entry_ops = 0

\* async_setup_entry: the first refresh raises ConfigEntryNotReady, or the
\* entry's data and the flags are stored
async_setup_entry(e, refresh_ok) ==
    /\ entry_state[e] \in {"not_loaded", "setup_retry"}
    /\ entry_ops < MaxEntryOps
    /\ entry_ops' = entry_ops + 1
    /\ IF refresh_ok
       THEN /\ hass_data' = DomainDataWith(hass_data, e)
            /\ entry_state' = [entry_state EXCEPT ![e] = "loaded"]
       ELSE /\ hass_data' = hass_data
            /\ entry_state' = [entry_state EXCEPT ![e] = "setup_retry"]
    /\ UNCHANGED << chanVars, useTls, mqttConfigured, mqtt_username,
                    switches, sensors, binary_sensors, loaded, call, calls,
                    drops, data, coordVars >>

\* async_unload_entry up to its awaits: the client's disconnect and the
\* unload of the platforms
async_unload_entry(e) ==
    /\ entry_state[e] = "loaded"
    /\ entry_ops < MaxEntryOps
    /\ entry_ops' = entry_ops + 1
    /\ entry_state' = [entry_state EXCEPT ![e] = "unloading"]
    /\ UNCHANGED << chanVars, useTls, mqttConfigured, mqtt_username,
                    switches, sensors, binary_sensors, loaded, hass_data,
                    call, calls, drops, data, coordVars >>

\* async_unload_platforms has returned unload_ok
UnloadPlatformsReturn(e, unload_ok) ==
    /\ entry_state[e] = "unloading"
    /\ IF unload_ok
       THEN /\ hass_data' = DomainDataWithout(hass_data, e)
            /\ entry_state' = [entry_state EXCEPT ![e] = "not_loaded"]
       ELSE /\ hass_data' = hass_data
            /\ entry_state' = [entry_state EXCEPT ![e] = "failed_unload"]
    /\ UNCHANGED << chanVars, useTls, mqttConfigured, mqtt_username,
                    switches, sensors, binary_sensors, loaded, entry_ops,
                    call, calls, drops, data, coordVars >>

Init ==
    /\ InitChannel
    /\ InitCoordinator
    /\ OneEntrySetUp
    /\ mqttConfigured \in BOOLEAN
    /\ data = FirstSnapshot(<< FnSwitch, FnSensor >>)
    /\ mqtt_username = UsernameBox
    /\ switches = SwitchEntities(data, mqtt_prefix(mqttConfigured, mqtt_username))
    /\ sensors = SensorEntities(data)
    /\ binary_sensors = BinarySensorEntities(data)
    /\ loaded = Platforms

\* ------------------------------------------------------------------------
\* switch.py: async_turn_on / async_turn_off around _publish
\* ------------------------------------------------------------------------
\* what async_turn_on / async_turn_off do to coordinator.data once _publish
\* has returned; _publish swallows every exception of async_publish
AfterPublish(d, rec) ==
    IF rec.op \in ActivationOps THEN PatchLastValue(d, rec.fid, rec.value) ELSE d

\* the record of a finished call: a call of the channel's API keeps its
\* locals; an activation returns None whatever happened, and only what
\* async_publish did is kept of it
Finished(rec, outcome) ==
    IF rec.op \in ActivationOps
    THEN [IdleCall EXCEPT !.op = rec.op, !.res = outcome]
    ELSE [rec EXCEPT !.pc = "idle", !.res = outcome]

\* the call of caller c ends with outcome
Return(c, rec, outcome) ==
    /\ call' = [call EXCEPT ![c] = Finished(rec, outcome)]
    /\ data' = AfterPublish(data, rec)

\* ------------------------------------------------------------------------
\* mqtt_client.py: async_connect
\* ------------------------------------------------------------------------
\* async_connect hands its outcome to its caller: async_publish goes on to
\* _blocking_publish only when async_connect returned normally
ConnectReturns(c, rec, outcome) ==
    IF rec.op = "connect" \/ outcome # "ok"
    THEN Return(c, rec, outcome)
    ELSE /\ call' = [call EXCEPT ![c] = [rec EXCEPT !.pc = "pub_exec"]]
         /\ data' = data

\* mutant: the connect sequence is not guarded by the lock
LockFreeAlways == TRUE

\* asyncio.Lock.acquire takes the lock at once only when nobody holds or
\* awaits it
LockFree == lockHolder = NoOne /\ waiters = << >>

\* mutant: the early return of async_connect is missing
AlreadyConnectedNever == FALSE

\* mutant: the early return tests the event the wrong way round
AlreadyConnectedInverted == client = "created" /\ ~ connected

\* if self._client is not None and self._connected.is_set(): return
AlreadyConnected == client = "created" /\ connected

\* the body of "async with self._connect_lock" up to the first await
EnterConnect(c, rec) ==
    IF AlreadyConnected
    THEN /\ client' = client
         /\ lockHolder' = NoOne
         /\ ConnectReturns(c, [rec EXCEPT !.conn = "noop"], "ok")
    ELSE /\ client' = "created"
         /\ lockHolder' = c
         /\ call' = [call EXCEPT ![c] = [rec EXCEPT !.pc = "handshake"]]
         /\ data' = data

StartConnect(c, rec) ==
    IF LockFree
    THEN /\ EnterConnect(c, rec)
         /\ waiters' = waiters
    ELSE /\ waiters' = Append(waiters, c)
         /\ call' = [call EXCEPT
                       ![c] = [rec EXCEPT !.pc = "lock_wait", !.waited = TRUE]]
         /\ UNCHANGED << client, lockHolder, data >>

NewCall(o, f, v) == [IdleCall EXCEPT !.op = o, !.fid = f, !.value = v]

CanCall(c) == call[c].pc = "idle" /\ calls < MaxCalls

async_connect(c) ==
    /\ CanCall(c)
    /\ calls' = calls + 1
    /\ StartConnect(c, NewCall("connect", 0, 0))
    /\ UNCHANGED << connected, link, loopRunning, callbacks, tlsConfigured, cfgVars, drops, coordVars >>

async_publish(c) ==
    /\ CanCall(c)
    /\ calls' = calls + 1
    /\ StartConnect(c, NewCall("publish", 0, 0))
    /\ UNCHANGED << connected, link, loopRunning, callbacks, tlsConfigured, cfgVars, drops, coordVars >>

\* _publish returns at once when the switch holds no client
Activate(c, f, o) ==
    LET v == IF o = "turn_on" THEN switches[f].state_on
             ELSE switches[f].state_off
        rec == NewCall(o, f, v)
    IN  /\ call[c].pc = "idle"
        /\ calls < MaxActivations
        /\ calls' = calls + 1
        /\ IF ~ mqttConfigured
           THEN /\ Return(c, rec, "not_configured")
                /\ UNCHANGED << client, lockHolder, waiters >>
           ELSE StartConnect(c, rec)
        /\ UNCHANGED << connected, link, loopRunning, callbacks,
                        tlsConfigured, cfgVars, drops, coordVars >>

async_turn_on(c, f) == Activate(c, f, "turn_on")

async_turn_off(c, f) == Activate(c, f, "turn_off")

\* a queued caller is handed the released lock
LockWake(c) ==
    /\ call[c].pc = "lock_wait"
    /\ lockHolder = NoOne
    /\ waiters # << >> /\ Head(waiters) = c
    /\ waiters' = Tail(waiters)
    /\ EnterConnect(c, call[c])
    /\ UNCHANGED << connected, link, loopRunning, callbacks, tlsConfigured, cfgVars, calls, drops, coordVars >>

\* client.tls_set() raises ValueError on a client that is already configured
TlsSetRaises == useTls /\ tlsConfigured

\* _blocking_connect in the executor: client.tls_set() raises
BlockingConnectTlsError(c) ==
    /\ call[c].pc = "handshake"
    /\ useTls
    /\ lockHolder' = NoOne
    /\ ConnectReturns(c, [call[c] EXCEPT !.conn = "tls_error"], "connect_error")
    /\ UNCHANGED << client, connected, waiters, link, loopRunning, callbacks,
                    tlsConfigured, cfgVars, calls, drops,
                    coordVars >>

\* _blocking_connect in the executor: client.connect() raises
BlockingConnectError(c) ==
    /\ call[c].pc = "handshake"
    /\ ~ TlsSetRaises
    /\ tlsConfigured' = useTls
    /\ link' = "down"
    /\ lockHolder' = NoOne
    /\ ConnectReturns(c, [call[c] EXCEPT !.conn = "error"], "connect_error")
    /\ UNCHANGED << client, connected, waiters, loopRunning, callbacks,
                    cfgVars, calls, drops, coordVars >>

\* _blocking_connect in the executor: CONNECT sent, network loop started
BlockingConnectOk(c) ==
    /\ call[c].pc = "handshake"
    /\ ~ TlsSetRaises
    /\ tlsConfigured' = useTls
    /\ link' = "sent"
    /\ loopRunning' = TRUE
    /\ call' = [call EXCEPT ![c].pc = "ack_wait"]
    /\ UNCHANGED << client, connected, lockHolder, waiters, callbacks,
                    cfgVars, calls, drops, data, coordVars >>

\* await asyncio.wait_for(self._connected.wait(), timeout=10.0) returns
AckWaitReturn(c) ==
    /\ call[c].pc = "ack_wait"
    /\ connected
    /\ lockHolder' = NoOne
    /\ ConnectReturns(c, [call[c] EXCEPT !.conn = "ok"], "ok")
    /\ UNCHANGED << client, connected, waiters, link, loopRunning, callbacks,
                    tlsConfigured, cfgVars, calls, drops,
                    coordVars >>

\* mutant: the timeout error leaves the connect lock held
ConnectTimeoutKeepsLock(c) ==
    /\ call[c].pc = "ack_wait"
    /\ ~ connected
    /\ lockHolder' = lockHolder
    /\ ConnectReturns(c, [call[c] EXCEPT !.conn = "timeout"], "connect_timeout")
    /\ UNCHANGED << client, connected, waiters, link, loopRunning, callbacks,
                    tlsConfigured, cfgVars, calls, drops,
                    coordVars >>

\* mutant: the wait for the connect acknowledgment has no timeout
ConnectTimeoutNever(c) ==
    /\ call[c].pc = "ack_wait"
    /\ FALSE
    /\ UNCHANGED vars

\* asyncio.TimeoutError -> RuntimeError("Timeout connecting ...")
ConnectTimeout(c) ==
    /\ call[c].pc = "ack_wait"
    /\ ~ connected
    /\ lockHolder' = NoOne
    /\ ConnectReturns(c, [call[c] EXCEPT !.conn = "timeout"], "connect_timeout")
    /\ UNCHANGED << client, connected, waiters, link, loopRunning, callbacks,
                    tlsConfigured, cfgVars, calls, drops,
                    coordVars >>

\* ------------------------------------------------------------------------
\* mqtt_client.py: async_publish after async_connect returned
\* ------------------------------------------------------------------------
\* the return code client.publish can give on the current socket
PublishCodes ==
    IF link = "down" THEN {"MQTT_ERR_NO_CONN"}
    ELSE {"MQTT_ERR_SUCCESS", "MQTT_ERR_QUEUE_SIZE"}

\* mutant: the return code of the publish is not checked
PublishResultUnchecked(rc) == "ok"

\* if info.rc != mqtt.MQTT_ERR_SUCCESS: raise RuntimeError(...)
PublishResult(rc) ==
    IF rc # "MQTT_ERR_SUCCESS" THEN "publish_error" ELSE "ok"

\* _blocking_publish in the executor: client.publish(...) gives info
BlockingPublish(c) ==
    /\ call[c].pc = "pub_exec"
    /\ \E r \in PublishCodes :
          call' = [call EXCEPT ![c].pc = "pub_wait", ![c].rc = Some(r)]
    /\ UNCHANGED << chanVars, cfgVars, calls, drops, data, coordVars >>

\* mutant: a publish that fails takes every publish in flight down with it
PublishWaitRaisesFailsAll(c) ==
    /\ call[c].pc = "pub_wait"
    /\ call[c].rc # Some("MQTT_ERR_SUCCESS")
    /\ call' = [d \in Callers |->
                  IF call[d].pc = "pub_wait"
                  THEN Finished(call[d], "publish_error") ELSE call[d]]
    /\ data' = AfterPublish(data, call[c])
    /\ UNCHANGED << chanVars, cfgVars, calls, drops, coordVars >>

\* info.wait_for_publish() raises on a message that was not accepted
PublishWaitRaises(c) ==
    /\ call[c].pc = "pub_wait"
    /\ call[c].rc # Some("MQTT_ERR_SUCCESS")
    /\ Return(c, call[c], "publish_error")
    /\ UNCHANGED << chanVars, cfgVars, calls, drops, coordVars >>

\* the broker acknowledges the message: info.wait_for_publish() returns and
\* the return code is checked
PublishAck(c) ==
    /\ call[c].pc = "pub_wait"
    /\ call[c].rc # Some("MQTT_ERR_QUEUE_SIZE")
    /\ link = "up" /\ loopRunning
    /\ Return(c, [call[c] EXCEPT !.acked = TRUE], PublishResult(call[c].rc[1]))
    /\ UNCHANGED << chanVars, cfgVars, calls, drops, coordVars >>

\* ------------------------------------------------------------------------
\* mqtt_client.py: async_disconnect
\* ------------------------------------------------------------------------
async_disconnect(c) ==
    /\ CanCall(c)
    /\ calls' = calls + 1
    /\ IF client = "none"
       THEN Return(c, NewCall("disconnect", 0, 0), "ok")
       ELSE /\ call' = [call EXCEPT
                          ![c] = [NewCall("disconnect", 0, 0) EXCEPT
                                    !.pc = "disc_exec"]]
            /\ data' = data
    /\ UNCHANGED << chanVars, cfgVars, drops, coordVars >>

\* mutant: stopping a loop that is not running is an error
BlockingDisconnectStrict(c) ==
    /\ call[c].pc = "disc_exec"
    /\ loopRunning' = FALSE
    /\ link' = "down"
    /\ IF loopRunning
       THEN call' = [call EXCEPT ![c].pc = "disc_done"] /\ data' = data
       ELSE Return(c, call[c], "disconnect_error")
    /\ UNCHANGED << client, connected, lockHolder, waiters, callbacks,
                    tlsConfigured, cfgVars, calls, drops, coordVars >>

\* _blocking_disconnect in the executor: loop_stop() then disconnect()
BlockingDisconnect(c) ==
    /\ call[c].pc = "disc_exec"
    /\ loopRunning' = FALSE
    /\ link' = "down"
    /\ call' = [call EXCEPT ![c].pc = "disc_done"]
    /\ UNCHANGED << client, connected, lockHolder, waiters, callbacks,
                    tlsConfigured, cfgVars, calls, drops,
                    data, coordVars >>

\* back on the event loop: self._connected.clear(). The completion of the
\* executor job is queued on the event loop behind every notification the
\* network thread scheduled before loop_stop() joined it, so those run first
DisconnectFinish(c) ==
    /\ call[c].pc = "disc_done"
    /\ callbacks = << >>
    /\ connected' = FALSE
    /\ Return(c, call[c], "ok")
    /\ UNCHANGED << client, lockHolder, waiters, link, loopRunning, callbacks,
                    tlsConfigured, cfgVars, calls, drops,
                    coordVars >>

\* ------------------------------------------------------------------------
\* paho's network thread and the broker
\* ------------------------------------------------------------------------
\* CONNACK rc = 0: _on_connect schedules self._connected.set
BrokerConnAck ==
    /\ link = "sent" /\ loopRunning
    /\ Len(callbacks) < MaxPending
    /\ link' = "up"
    /\ callbacks' = Append(callbacks, "set")
    /\ UNCHANGED << client, connected, lockHolder, waiters, loopRunning,
                    tlsConfigured, cfgVars, call, calls,
                    drops, data, coordVars >>

\* CONNACK rc # 0: _on_connect only logs; the socket is closed and
\* _on_disconnect schedules self._connected.clear
BrokerConnRefused ==
    /\ link = "sent" /\ loopRunning
    /\ drops < MaxDrops
    /\ Len(callbacks) < MaxPending
    /\ link' = "down"
    /\ drops' = drops + 1
    /\ callbacks' = Append(callbacks, "clear")
    /\ UNCHANGED << client, connected, lockHolder, waiters, loopRunning,
                    tlsConfigured, cfgVars, call, calls,
                    data, coordVars >>

\* the connection drops: _on_disconnect schedules self._connected.clear
ConnectionDrop ==
    /\ link = "up" /\ loopRunning
    /\ drops < MaxDrops
    /\ Len(callbacks) < MaxPending
    /\ link' = "down"
    /\ drops' = drops + 1
    /\ callbacks' = Append(callbacks, "clear")
    /\ UNCHANGED << client, connected, lockHolder, waiters, loopRunning,
                    tlsConfigured, cfgVars, call, calls,
                    data, coordVars >>

\* the running network loop reconnects a lost socket by itself
LoopReconnect ==
    /\ link = "down" /\ loopRunning
    /\ link' = "sent"
    /\ UNCHANGED << client, connected, lockHolder, waiters, loopRunning,
                    callbacks, tlsConfigured, cfgVars, call,
                    calls, drops, data, coordVars >>

\* the event loop runs a callback scheduled with call_soon_threadsafe
RunCallback ==
    /\ callbacks # << >>
    /\ connected' = (Head(callbacks) = "set")
    /\ callbacks' = Tail(callbacks)
    /\ UNCHANGED << client, lockHolder, waiters, link, loopRunning, tlsConfigured, cfgVars, call, calls, drops, data,
                    coordVars >>

\* ------------------------------------------------------------------------
\* coordinator.py: _async_update_data, one action per await
\* ------------------------------------------------------------------------
StartCycle ==
    /\ cycle = "idle"
    /\ cycles < MaxCycles
    /\ cycle' = "list"
    /\ gateway' = "pending"
    /\ cycles' = cycles + 1
    /\ functionx_raw' = << >>
    /\ status_batch' = << >>
    /\ status_by_topic' = << >>
    /\ UNCHANGED << chanVars, cfgVars, call, calls, drops, data, topics,
                    function_by_topic, last_update >>
    /\ UNCHANGED apiVars

\* api.py: the awaited request ends by raising (transport failure, timeout,
\* status >= 400, or a response that is not a list)
GatewayFails(x) ==
    /\ gateway = "pending"
    /\ LET r == IF cycle = "list"
                THEN async_list_functionx(InstallationId, x)
                ELSE async_get_status_for_topics(InstallationId, topics, x)
       IN  /\ r.raised
           /\ api_error' = r.error
    /\ exchange' = x
    /\ gateway' = "error"
    /\ UNCHANGED << chanVars, cfgVars, call, calls, drops, data, cycle, topics,
                    function_by_topic, functionx_raw, status_batch,
                    status_by_topic, last_update, cycles >>

\* except IoTOpenApiError: raise UpdateFailed("Failed to fetch FunctionX")
ListFails ==
    /\ cycle = "list"
    /\ gateway = "error"
    /\ cycle' = "idle"
    /\ gateway' = "idle"
    /\ last_update' = "UpdateFailed: FunctionX"
    /\ UNCHANGED << chanVars, cfgVars, call, calls, drops, data, topics,
                    function_by_topic, functionx_raw, status_batch,
                    status_by_topic, cycles >>
    /\ exchange' = NoExchange
    /\ api_error' = None

\* mutant: the functions are published before their status is requested
ListReturnsPublishesEarly(raw) ==
    /\ cycle = "list"
    /\ gateway = "pending"
    /\ LET f == FilterFunctions(raw, EmptyFilter)
       IN  IF f.topics # << >>
           THEN /\ cycle' = "status"
                /\ gateway' = "pending"
                /\ topics' = f.topics
                /\ function_by_topic' = f.function_by_topic
                /\ data' = BuildResult(f.function_by_topic, << >>, << >>)
                /\ UNCHANGED last_update
           ELSE /\ cycle' = "idle"
                /\ gateway' = "idle"
                /\ data' = BuildResult(f.function_by_topic, << >>, << >>)
                /\ last_update' = "ok"
                /\ topics' = << >>
                /\ function_by_topic' = << >>
    /\ functionx_raw' = raw
    /\ UNCHANGED << chanVars, cfgVars, call, calls, drops, status_batch,
                    status_by_topic, cycles >>
    /\ UNCHANGED apiVars

\* async_list_functionx returns a list: filter, then either request the
\* status of the topics or, without topics, build and return the result
ListReturns(raw) ==
    /\ cycle = "list"
    /\ gateway = "pending"
    /\ LET f == FilterFunctions(raw, EmptyFilter)
       IN  IF f.topics # << >>
           THEN /\ cycle' = "status"
                /\ gateway' = "pending"
                /\ topics' = f.topics
                /\ function_by_topic' = f.function_by_topic
                /\ UNCHANGED << data, last_update >>
           ELSE /\ cycle' = "idle"
                /\ gateway' = "idle"
                /\ data' = BuildResult(f.function_by_topic, << >>, << >>)
                /\ last_update' = "ok"
                /\ topics' = << >>
                /\ function_by_topic' = << >>
    /\ functionx_raw' = raw
    /\ UNCHANGED << chanVars, cfgVars, call, calls, drops, status_batch,
                    status_by_topic, cycles >>
    /\ UNCHANGED apiVars

\* mutant: a failed status request publishes the functions gathered so far
StatusFailsPublishesPartial ==
    /\ cycle = "status"
    /\ gateway = "error"
    /\ cycle' = "idle"
    /\ gateway' = "idle"
    /\ last_update' = "UpdateFailed: status"
    /\ data' = BuildResult(function_by_topic, << >>, << >>)
    /\ topics' = << >>
    /\ function_by_topic' = << >>
    /\ UNCHANGED << chanVars, cfgVars, call, calls, drops, functionx_raw,
                    status_batch, status_by_topic, cycles >>
    /\ exchange' = NoExchange
    /\ api_error' = None

\* except IoTOpenApiError: raise UpdateFailed("Failed to fetch status")
StatusFails ==
    /\ cycle = "status"
    /\ gateway = "error"
    /\ cycle' = "idle"
    /\ gateway' = "idle"
    /\ last_update' = "UpdateFailed: status"
    /\ topics' = << >>
    /\ function_by_topic' = << >>
    /\ UNCHANGED << chanVars, cfgVars, call, calls, drops, data, functionx_raw,
                    status_batch, status_by_topic, cycles >>
    /\ exchange' = NoExchange
    /\ api_error' = None

\* mutant: the result is built on top of the previous snapshot
StatusReturnsKeepsOld(status_raw) ==
    /\ cycle = "status"
    /\ gateway = "pending"
    /\ LET m == MergeStatus(status_raw, EmptyStatus)
       IN  IF m.ok
           THEN /\ data' = BuildResult(function_by_topic, m.status_by_topic,
                                       data)
                /\ last_update' = "ok"
           ELSE /\ data' = data
                /\ last_update' = "TypeError"
    /\ status_batch' = status_raw
    /\ status_by_topic' = MergeStatus(status_raw, EmptyStatus).status_by_topic
    /\ cycle' = "idle"
    /\ gateway' = "idle"
    /\ topics' = << >>
    /\ function_by_topic' = << >>
    /\ UNCHANGED << chanVars, cfgVars, call, calls, drops, functionx_raw,
                    cycles >>
    /\ UNCHANGED apiVars

\* mutant: an entry without a sample keeps the last_value it had
StatusReturnsKeepsPatch(status_raw) ==
    /\ cycle = "status"
    /\ gateway = "pending"
    /\ LET m == MergeStatus(status_raw, EmptyStatus)
           r == BuildResult(function_by_topic, m.status_by_topic, << >>)
       IN  IF m.ok
           THEN /\ data' = [f \in DOMAIN r |->
                              IF r[f].last_value = None /\ f \in DOMAIN data
                              THEN [r[f] EXCEPT
                                      !.last_value = data[f].last_value]
                              ELSE r[f]]
                /\ last_update' = "ok"
           ELSE /\ data' = data
                /\ last_update' = "TypeError"
    /\ status_batch' = status_raw
    /\ status_by_topic' = MergeStatus(status_raw, EmptyStatus).status_by_topic
    /\ cycle' = "idle"
    /\ gateway' = "idle"
    /\ topics' = << >>
    /\ function_by_topic' = << >>
    /\ UNCHANGED << chanVars, cfgVars, call, calls, drops, functionx_raw,
                    cycles >>
    /\ UNCHANGED apiVars

\* async_get_status_for_topics returns: merge, build, return the result
\* (or leave with the TypeError of the merge, which publishes nothing)
StatusReturns(status_raw) ==
    /\ cycle = "status"
    /\ gateway = "pending"
    /\ LET m == MergeStatus(status_raw, EmptyStatus)
       IN  IF m.ok
           THEN /\ data' = BuildResult(function_by_topic, m.status_by_topic,
                                       << >>)
                /\ last_update' = "ok"
           ELSE /\ data' = data
                /\ last_update' = "TypeError"
    /\ status_batch' = status_raw
    /\ status_by_topic' = MergeStatus(status_raw, EmptyStatus).status_by_topic
    /\ cycle' = "idle"
    /\ gateway' = "idle"
    /\ topics' = << >>
    /\ function_by_topic' = << >>
    /\ UNCHANGED << chanVars, cfgVars, call, calls, drops, functionx_raw,
                    cycles >>
    /\ UNCHANGED apiVars

\* ------------------------------------------------------------------------
\* Specifications
\* ------------------------------------------------------------------------
ChannelStep(c) ==
    \/ LockWake(c)
    \/ BlockingConnectTlsError(c)
    \/ BlockingConnectError(c)
    \/ BlockingConnectOk(c)
    \/ AckWaitReturn(c)
    \/ ConnectTimeout(c)
    \/ BlockingPublish(c)
    \/ PublishWaitRaises(c)
    \/ PublishAck(c)

DisconnectStep(c) ==
    \/ async_disconnect(c)
    \/ BlockingDisconnect(c)
    \/ DisconnectFinish(c)

Network ==
    \/ BrokerConnAck
    \/ BrokerConnRefused
    \/ ConnectionDrop
    \/ LoopReconnect
    \/ RunCallback

Refresh ==
    \/ StartCycle
    \/ \E x \in {TimeoutExchange} : GatewayFails(x)
    \/ ListFails
    \/ \E raw \in FunctionLists : ListReturns(raw)
    \/ StatusFails
    \/ \E status_raw \in StatusBatches : StatusReturns(status_raw)

\* ------------------------------------------------------------------------
\* sensor.py, binary_sensor.py, switch.py: async_setup_entry of each platform
\* over the first snapshot
\* ------------------------------------------------------------------------
sensor_async_setup_entry ==
    /\ "sensor" \notin loaded
    /\ sensors' = SensorEntities(data)
    /\ loaded' = loaded \cup {"sensor"}
    /\ UNCHANGED << chanVars, entryVars, useTls, mqttConfigured, mqtt_username, switches,
                    binary_sensors, call, calls, drops, data, coordVars >>

binary_sensor_async_setup_entry ==
    /\ "binary_sensor" \notin loaded
    /\ binary_sensors' = BinarySensorEntities(data)
    /\ loaded' = loaded \cup {"binary_sensor"}
    /\ UNCHANGED << chanVars, entryVars, useTls, mqttConfigured, mqtt_username, switches, sensors,
                    call, calls, drops, data, coordVars >>

switch_async_setup_entry ==
    /\ "switch" \notin loaded
    /\ switches' =
          SwitchEntities(data, mqtt_prefix(mqttConfigured, mqtt_username))
    /\ loaded' = loaded \cup {"switch"}
    /\ UNCHANGED << chanVars, entryVars, useTls, mqttConfigured, mqtt_username, sensors,
                    binary_sensors, call, calls, drops, data, coordVars >>

\* the platforms set up over a first snapshot of one function, for every
\* type and meta of ClassRecords
ClassInit ==
    /\ InitChannel
    /\ InitCoordinator
    /\ OneEntrySetUp
    /\ mqttConfigured = FALSE
    /\ mqtt_username = UsernameBox
    /\ \E rec \in ClassRecords : data = FirstSnapshot(<< rec >>)
    /\ switches = << >>
    /\ sensors = {}
    /\ binary_sensors = {}
    /\ loaded = {}

ClassNext ==
    \/ sensor_async_setup_entry
    \/ binary_sensor_async_setup_entry
    \/ switch_async_setup_entry

ClassSpec == ClassInit /\ [][ClassNext]_vars

\* the platforms set up over a first snapshot of one switch function, for
\* every write topic, read topic and MQTT configuration
TopicInit ==
    /\ InitChannel
    /\ InitCoordinator
    /\ OneEntrySetUp
    /\ mqttConfigured \in BOOLEAN
    /\ mqtt_username \in Usernames
    /\ \E rec \in TopicRecords : data = FirstSnapshot(<< rec >>)
    /\ switches = << >>
    /\ sensors = {}
    /\ binary_sensors = {}
    /\ loaded = {}

TopicSpec == TopicInit /\ [][ClassNext]_vars

\* set-ups and unloads of the config entries, starting with none set up
EntryInit ==
    /\ InitChannel
    /\ InitCoordinator
    /\ hass_data = None
    /\ entry_state = [e \in EntryIds |-> "not_loaded"]
    /\ entry_ops = 0
    /\ mqttConfigured \in BOOLEAN
    /\ mqtt_username = UsernameBox
    /\ data = << >>
    /\ switches = << >>
    /\ sensors = {}
    /\ binary_sensors = {}
    /\ loaded = {}

EntryNext ==
    \/ \E e \in EntryIds : \E refresh_ok \in BOOLEAN :
          async_setup_entry(e, refresh_ok)
    \/ \E e \in EntryIds : async_unload_entry(e)
    \/ \E e \in EntryIds : \E unload_ok \in BOOLEAN :
          UnloadPlatformsReturn(e, unload_ok)

EntrySpec == EntryInit /\ [][EntryNext]_vars

\* refresh cycles alone, over the lists and batches of the whole installation
CycleNext ==
    \/ StartCycle
    \/ \E x \in Exchanges : GatewayFails(x)
    \/ ListFails
    \/ \E raw \in CycleLists : ListReturns(raw)
    \/ StatusFails
    \/ \E status_raw \in CycleBatches : StatusReturns(status_raw)

CycleSpec == Init /\ [][CycleNext]_vars

\* switch activations racing with refresh cycles
Next ==
    \/ \E c \in Callers : \E f \in DOMAIN switches : async_turn_on(c, f)
    \/ \E c \in Callers : \E f \in DOMAIN switches : async_turn_off(c, f)
    \/ \E c \in Callers : ChannelStep(c)
    \/ Network
    \/ Refresh

Spec == Init /\ [][Next]_vars

\* one switch entity with each configuration of its on/off values, activated
\* over the channel
SwitchInit ==
    /\ InitChannel
    /\ InitCoordinator
    /\ OneEntrySetUp
    /\ mqttConfigured = TRUE
    /\ mqtt_username = UsernameBox
    /\ \E rec \in SwitchRecords : data = FirstSnapshot(<< rec >>)
    /\ switches = SwitchEntities(data, mqtt_prefix(mqttConfigured, mqtt_username))
    /\ sensors = SensorEntities(data)
    /\ binary_sensors = BinarySensorEntities(data)
    /\ loaded = Platforms

SwitchNext ==
    \/ \E c \in Callers : \E f \in DOMAIN switches : async_turn_on(c, f)
    \/ \E c \in Callers : \E f \in DOMAIN switches : async_turn_off(c, f)
    \/ \E c \in Callers : ChannelStep(c)
    \/ Network

SwitchSpec == SwitchInit /\ [][SwitchNext]_vars

\* the command channel alone, driven through its public API
ChanInit ==
    /\ InitChannel
    /\ InitCoordinator
    /\ OneEntrySetUp
    /\ mqttConfigured = TRUE
    /\ mqtt_username = UsernameBox
    /\ data = << >>
    /\ switches = << >>
    /\ sensors = {}
    /\ binary_sensors = {}
    /\ loaded = {}

ChanNext ==
    \/ \E c \in Callers : async_connect(c)
    \/ \E c \in Callers : async_publish(c)
    \/ \E c \in Callers : DisconnectStep(c)
    \/ \E c \in Callers : ChannelStep(c)
    \/ Network

ChanSpec == ChanInit /\ [][ChanNext]_vars

\* fairness: the event loop resumes every ready coroutine and callback, the
\* executor runs every submitted job, and the connect wait carries a timer;
\* nothing obliges the broker to answer or a caller to start a call
ChanFairness ==
    /\ WF_vars(RunCallback)
    /\ \A c \in Callers :
          /\ WF_vars(LockWake(c))
          /\ WF_vars(BlockingConnectTlsError(c) \/ BlockingConnectError(c)
                       \/ BlockingConnectOk(c))
          /\ WF_vars(AckWaitReturn(c) \/ ConnectTimeout(c))
          /\ WF_vars(BlockingPublish(c))
          /\ WF_vars(PublishWaitRaises(c))
          /\ WF_vars(BlockingDisconnect(c))
          /\ WF_vars(DisconnectFinish(c))

ChanFairSpec == ChanSpec /\ ChanFairness

\* ------------------------------------------------------------------------
\* Properties
\* ------------------------------------------------------------------------
\* the current or last call of c has called client.connect()
Handshake(c) ==
    \/ call[c].pc = "ack_wait"
    \/ call[c].conn \in {"error", "ok", "timeout"}
Handshakes == Cardinality({c \in Callers : Handshake(c)})
InAttempt(c) == call[c].pc \in {"handshake", "ack_wait"}
InConnect(c) == call[c].pc \in {"lock_wait", "handshake", "ack_wait"}
Ends(c) == call[c].pc # "idle" /\ call'[c].pc = "idle"

\* C1: a switch activation whose publish fails (publish error / non-success
\* acknowledgment) leaves the snapshot as it was before the activation: the
\* optimistic patch is applied only after a successful acknowledgment.
C1_FailedPublishKeepsLastValue ==
    [][\A c \in Callers :
          (Ends(c) /\ call'[c].op \in ActivationOps
             /\ call'[c].res = "publish_error") => data' = data]_vars

\* C2: a switch activation during which the channel's connect fails
\* (handshake exception or acknowledgment timeout) changes no field of any
\* entry of the published snapshot.
C2_FailedConnectKeepsSnapshot ==
    [][\A c \in Callers :
          (Ends(c) /\ call'[c].op \in ActivationOps
             /\ call'[c].res \in {"connect_error", "connect_timeout"})
          => data' = data]_vars

\* C3: a finished async_publish call has returned normally exactly when
\* async_connect returned normally, client.publish gave the success code and
\* the broker acknowledged the message; in every other case it has raised
\* one of the connect or publish errors.
C3_PublishReturnsOnlyOnAck ==
    \A c \in Callers :
        (call[c].pc = "idle" /\ call[c].op = "publish") =>
            IF /\ call[c].conn \in {"ok", "noop"}
               /\ call[c].rc = Some("MQTT_ERR_SUCCESS")
               /\ call[c].acked
            THEN call[c].res = "ok"
            ELSE call[c].res \in
                     {"connect_error", "connect_timeout", "publish_error"}

C3_Witness ==
    \E c, d \in Callers :
        /\ call[c].pc = "idle" /\ call[c].op = "publish" /\ call[c].res = "ok"
        /\ call[d].pc = "idle" /\ call[d].op = "publish"
        /\ call[d].res = "publish_error"

\* the first two calls on the channel were connect(), b queued on the lock
\* behind a, and both have ended
TwoConcurrentConnects(a, b) ==
    /\ a # b
    /\ calls = 2
    /\ call[a].op = "connect" /\ call[a].pc = "idle" /\ ~ call[a].waited
    /\ call[b].op = "connect" /\ call[b].pc = "idle" /\ call[b].waited

C5_OneAttemptInFlight ==
    /\ Cardinality({c \in Callers : InAttempt(c)}) <= 1
    /\ \A c \in Callers : InAttempt(c) => lockHolder = c

C5_Witness ==
    \E a, b \in Callers :
        /\ call[a].pc = "ack_wait"
        /\ call[b].pc = "lock_wait" /\ call[b].op = "publish"

\* C6: a connect() that finds the channel Connected starts no attempt (no
\* TLS setup, no handshake, no loop start) and leaves the client, the
\* connection state and the socket unchanged.
C6_ConnectWhenConnectedIsNoop ==
    [][\A c \in Callers :
          (/\ client = "created" /\ connected
           /\ call[c].pc \in {"idle", "lock_wait"}
           /\ call'[c] # call[c]
           /\ call'[c].op \in ConnectOps)
          => /\ ~ InAttempt(c)'
             /\ call'[c].conn \in {"none", "noop"}
             /\ lockHolder' # c
             /\ UNCHANGED << client, connected, link, loopRunning, callbacks,
                             tlsConfigured >>]_vars

C6_Witness ==
    \E c \in Callers :
        /\ call[c].op = "connect" /\ call[c].pc = "idle"
        /\ call[c].conn = "noop" /\ call[c].res = "ok"
        /\ connected /\ Handshakes = 1

\* C7: a connect() attempt that leaves the acknowledgment wait without the
\* acknowledgment fails with the connect-timeout error, and at that moment
\* the channel is Disconnected, the connect lock is free and no attempt is
\* in flight.
C7_TimeoutLeavesDisconnected ==
    [][\A c \in Callers :
          (call[c].pc = "ack_wait" /\ call'[c].pc # "ack_wait") =>
              IF connected
              THEN call'[c].conn = "ok"
              ELSE /\ call'[c].conn = "timeout"
                   /\ call'[c].pc = "idle"
                   /\ call'[c].res = "connect_timeout"
                   /\ ~ connected'
                   /\ lockHolder' = NoOne
                   /\ \A d \in Callers : ~ InAttempt(d)']_vars

\* after a timeout a later caller has started a new attempt
C7_Witness ==
    \E c, d \in Callers :
        /\ call[c].pc = "idle" /\ call[c].res = "connect_timeout"
        /\ call[d].pc = "handshake" /\ Handshakes = 1
        /\ ~ connected

\* C8: every publish() call eventually completes, even if the broker never
\* acknowledges the message.
C8_PublishCompletes ==
    \A c \in Callers :
        (call[c].op = "publish" /\ call[c].pc # "idle") ~> (call[c].pc = "idle")

\* C9: every connect() eventually completes, whatever the broker does: a
\* caller queued on the lock, running the handshake or waiting for the
\* acknowledgment eventually leaves the connect sequence.
C9_ConnectCompletes ==
    \A c \in Callers : InConnect(c) ~> ~ InConnect(c)

\* the broker never acknowledged and the call ended with the timeout error
C9_Witness ==
    \E c \in Callers :
        /\ call[c].op = "connect" /\ call[c].pc = "idle"
        /\ call[c].res = "connect_timeout"
        /\ link = "sent" /\ callbacks = << >>

\* C10: a refresh cycle that meets a gateway failure ends with the
\* update-failed signal, and no step of a cycle other than its successful
\* completion adds, removes or changes an entry of the published snapshot.
C10_FailedCycleKeepsSnapshot ==
    [][/\ (gateway = "error" /\ cycle' # cycle) =>
             /\ cycle' = "idle"
             /\ last_update' \in {"UpdateFailed: FunctionX",
                                  "UpdateFailed: status"}
             /\ data' = data
       /\ (cycle' # cycle /\ ~ (cycle' = "idle" /\ last_update' = "ok")) =>
             data' = data]_vars

\* the status request of a cycle failed after an optimistic patch
C10_Witness ==
    /\ cycle = "idle"
    /\ last_update = "UpdateFailed: status"
    /\ 1 \in DOMAIN data /\ data[1].last_value # None

\* the channel is Disconnected and nothing of it runs in the background
Quiet == ~ connected /\ link = "down" /\ ~ loopRunning

\* caller c takes a step of a disconnect() call
DisconnectStepOf(c) == call'[c] # call[c] /\ call'[c].op = "disconnect"

\* C19: disconnect() is safe and idempotent: every call returns normally
\* with the channel Disconnected; its executor step leaves the network loop
\* stopped and the socket closed; and on a channel that never connected or
\* is already disconnected no step of it changes anything of the channel,
\* so that a second call in succession leaves the state of the first.
C19_DisconnectIdempotent ==
    [][\A c \in Callers :
          DisconnectStepOf(c) =>
              /\ call'[c].pc = "idle" =>
                    call'[c].res = "ok" /\ ~ connected'
              /\ call[c].pc = "disc_exec" =>
                    link' = "down" /\ ~ loopRunning'
              /\ Quiet => UNCHANGED chanVars
              /\ client = "none" => call'[c].pc = "idle"]_vars

\* disconnect() has run its executor step on a channel whose only connect
\* has failed and is about to return
C19_Witness ==
    \E c, d \in Callers :
        /\ call[d].op = "connect" /\ call[d].pc = "idle"
        /\ call[d].res = "connect_error"
        /\ call[c].op = "disconnect" /\ call[c].pc = "disc_done"
        /\ client = "created" /\ Quiet

\* C20: processing a connection-drop notification leaves the channel
\* Disconnected, and a publish() that runs the connect sequence once the
\* notification of a drop has been processed performs a new handshake
\* (client.connect is called) and goes on to the acknowledgment wait unless
\* the handshake itself fails.
C20_PublishReconnectsAfterDrop ==
    [][/\ (callbacks # << >> /\ Head(callbacks) = "clear"
            /\ callbacks' = Tail(callbacks)) => ~ connected'
       /\ \A c \in Callers :
             (/\ call[c].op = "publish" /\ drops > 0 /\ callbacks = << >>
              /\ call[c].pc = "handshake" /\ call'[c].pc # "handshake")
             => \/ call'[c].pc = "ack_wait"
                \/ call'[c].conn = "error"]_vars

\* ------------------------------------------------------------------------
\* Properties of the refresh cycle
\* ------------------------------------------------------------------------
\* the record has a non-empty meta.topic_read
HasTopic(item) ==
    "topic_read" \in DOMAIN item.meta /\ item.meta.topic_read # << >>

\* positions of the records of raw that are exposed, have a topic and are
\* the last such record of their topic
Survivors(raw) ==
    {i \in 1 .. Len(raw) :
        /\ is_exposed_to_ha(raw[i].meta) /\ HasTopic(raw[i])
        /\ ~ \E j \in (i + 1) .. Len(raw) :
                /\ is_exposed_to_ha(raw[j].meta) /\ HasTopic(raw[j])
                /\ raw[j].meta.topic_read = raw[i].meta.topic_read}

\* positions of the samples of batch that carry topic t
SamplesOf(batch, t) ==
    {k \in 1 .. Len(batch) :
        "topic" \in DOMAIN batch[k] /\ batch[k].topic = Some(t)}

\* the cycle returns its result in this step
CycleCompletes == cycle # "idle" /\ cycle' = "idle" /\ last_update' = "ok"

\* C11: a refresh cycle that completes replaces the whole snapshot: the new
\* snapshot holds exactly the functions that survived this cycle's filter,
\* each built from its record of this cycle's list and from a sample of this
\* cycle's telemetry (absent value and timestamp when no sample has its
\* topic); nothing of the previous snapshot, optimistic patch included, is
\* carried over.
C11_CycleReplacesSnapshot ==
    [][CycleCompletes =>
          LET raw == functionx_raw'
              batch == status_batch'
          IN  /\ DOMAIN data' = {raw[i].id : i \in Survivors(raw)}
              /\ \A f \in DOMAIN data' : \E i \in Survivors(raw) :
                    LET e == data'[f]
                        t == raw[i].meta.topic_read
                    IN  /\ raw[i].id = f
                        /\ e.type = raw[i].type
                        /\ e.meta = raw[i].meta
                        /\ e.topic_read = t
                        /\ IF SamplesOf(batch, t) = {}
                           THEN e.last_value = None /\ e.last_timestamp = None
                           ELSE \E k \in SamplesOf(batch, t) :
                                  /\ e.last_value = SampleField(
                                         t :> batch[k], t, "value")
                                  /\ e.last_timestamp = SampleField(
                                         t :> batch[k], t, "timestamp")]_vars

\* the sensor has left the list and the patched value of the switch is gone
C11_Witness ==
    /\ cycles = 1 /\ cycle = "idle" /\ last_update = "ok"
    /\ functionx_raw = << FnSwitch >>
    /\ 2 \notin DOMAIN data
    /\ 1 \in DOMAIN data /\ data[1].last_value = None
    /\ \E c \in Callers :
          call[c].pc = "idle" /\ call[c].op \in ActivationOps

\* the values with which the installation marks a record hidden or disabled
HiddenMarks == {STR_true, STR_yes, STR_1, << " ", "O", "N", " " >>}

\* meta marks the record hidden or disabled
Marked(meta) ==
    \E k \in {"ha.disabled", "ha.hidden"} :
        k \in DOMAIN meta /\ meta[k] \in HiddenMarks

C13_TopicReadNeverEmpty ==
    [][/\ \A f \in DOMAIN data' : data'[f].topic_read # << >>
       /\ CycleCompletes =>
             \A i \in 1 .. Len(functionx_raw') :
                 ~ HasTopic(functionx_raw'[i]) =>
                     functionx_raw'[i].id \notin DOMAIN data'
       /\ (cycle = "list" /\ gateway = "pending" /\ cycle' # "list") =>
             IF \A i \in 1 .. Len(functionx_raw') :
                    Marked(functionx_raw'[i].meta)
                      \/ ~ HasTopic(functionx_raw'[i])
             THEN /\ cycle' = "idle" /\ gateway' = "idle"
                  /\ last_update' = "ok"
                  /\ data' = << >>
                  /\ status_batch' = << >>
             ELSE /\ cycle' = "status" /\ gateway' = "pending"
                  /\ topics' # << >>
                  /\ \A j \in 1 .. Len(topics') : topics'[j] # << >>]_vars

\* a cycle whose list holds only records without a usable topic_read
C13_Witness ==
    /\ cycles = 1 /\ cycle = "idle" /\ last_update = "ok"
    /\ functionx_raw = << FnNoTopic, FnEmptyTopic >>
    /\ data = << >> /\ status_batch = << >>

\* the sample of batch with the greatest timestamp for topic t, the last of
\* them among equals; a missing or null timestamp counts as 0
GreatestLast(batch, t) ==
    CHOOSE k \in SamplesOf(batch, t) :
        \A j \in SamplesOf(batch, t) :
            \/ TsOrZero(batch[j]) < TsOrZero(batch[k])
            \/ TsOrZero(batch[j]) = TsOrZero(batch[k]) /\ j <= k

\* C14: for every batch of status samples and every topic that has a sample
\* in it, the merge succeeds and retains the sample with the greatest
\* timestamp for that topic, the last processed among equals, samples with
\* a missing or null timestamp included.
C14_MergeKeepsGreatest ==
    \A t \in {TopicA, TopicB} :
        SamplesOf(status_batch, t) # {} =>
            /\ last_update = "ok"
            /\ t \in DOMAIN status_by_topic
            /\ status_by_topic[t] = status_batch[GreatestLast(status_batch, t)]

\* C15: merging a batch a second time into the per-topic map that its first
\* merge produced succeeds and leaves the map as it was.
C15_MergeIdempotent ==
    (cycle = "idle" /\ last_update = "ok" /\ status_batch # << >>) =>
        MergeStatus(status_batch,
                    [ok |-> TRUE, status_by_topic |-> status_by_topic])
          = [ok |-> TRUE, status_by_topic |-> status_by_topic]

\* C16: when two exposed records of one list share a topic_read, the earlier
\* one yields no entry of the snapshot and the last record of that topic is
\* the one the entry is built from.
C16_SharedTopicLastWins ==
    [][CycleCompletes =>
          \A i, j \in 1 .. Len(functionx_raw') :
              LET a == functionx_raw'[i]
                  b == functionx_raw'[j]
              IN  (/\ i < j
                   /\ ~ Marked(a.meta) /\ HasTopic(a)
                   /\ ~ Marked(b.meta) /\ HasTopic(b)
                   /\ a.meta.topic_read = b.meta.topic_read)
                  => /\ a.id \notin DOMAIN data'
                     /\ (\A k \in (j + 1) .. Len(functionx_raw') :
                            ~ HasTopic(functionx_raw'[k])
                            \/ functionx_raw'[k].meta.topic_read
                                  # b.meta.topic_read)
                        => /\ b.id \in DOMAIN data'
                           /\ data'[b.id].meta = b.meta
                           /\ data'[b.id].type = b.type
                           /\ data'[b.id].topic_read = b.meta.topic_read]_vars

\* the switch and a later record share a topic: only the later one is left
C16_Witness ==
    /\ cycles = 1 /\ cycle = "idle" /\ last_update = "ok"
    /\ functionx_raw = << FnSwitch, FnDup >>
    /\ DOMAIN data = {6}

\* ------------------------------------------------------------------------
\* Properties of the classification
\* ------------------------------------------------------------------------
\* the platforms that hold an entity of function f
PlatformsOf(f) ==
    {p \in Platforms :
        \/ p = "sensor" /\ f \in sensors
        \/ p = "binary_sensor" /\ f \in binary_sensors
        \/ p = "switch" /\ f \in DOMAIN switches}

\* C17: a function of type "switch", in any letter case, whose meta holds
\* state_alarm and state_no_alarm is matched by the switch rule and rejected
\* by the binary-sensor rule: once the platforms are set up it is a switch
\* and nothing else.
C17_SwitchTypeNeverBinary ==
    \A f \in DOMAIN data :
        (/\ data[f].type \in SwitchSpellings
         /\ {"state_alarm", "state_no_alarm"} \subseteq DOMAIN data[f].meta)
        => /\ is_switch_function(data[f])
           /\ ~ is_binary_function(data[f])
           /\ loaded = Platforms => PlatformsOf(f) = {"switch"}

\* type "SwitcH" with both alarm keys and no topic_write, platforms set up
C17_Witness ==
    /\ loaded = Platforms
    /\ 1 \in DOMAIN data
    /\ data[1].type = TypeSwitchMixed
    /\ DOMAIN data[1].meta = {"topic_read", "state_alarm", "state_no_alarm"}
    /\ PlatformsOf(1) = {"switch"}

\* C18: for every type and meta the binary-sensor rule is false whenever the
\* switch rule is true, a match by topic_write alone included, and once the
\* platforms are set up every function of the snapshot is held by exactly
\* one platform.
C18_ExactlyOnePlatform ==
    loaded = Platforms =>
        \A f \in DOMAIN data :
            /\ is_switch_function(data[f]) => ~ is_binary_function(data[f])
            /\ Cardinality(PlatformsOf(f)) = 1

\* ------------------------------------------------------------------------
\* Properties of the optimistic patch
\* ------------------------------------------------------------------------
\* the value a switch entity commands with the operation
Commanded(f, o) ==
    IF o = "turn_on" THEN switches[f].state_on ELSE switches[f].state_off

\* C21: when a switch activation whose publish was acknowledged with the
\* success code returns, the entry of its function in the snapshot published
\* at that moment, if there is one, has the commanded value as last_value:
\* state_on for turn_on and state_off for turn_off.
C21_AckedActivationPatches ==
    [][\A c \in Callers :
          (Ends(c) /\ call'[c].op \in ActivationOps /\ call'[c].res = "ok")
          => /\ call[c].pc = "pub_wait"
             /\ call[c].rc = Some("MQTT_ERR_SUCCESS")
             /\ call[c].fid \in DOMAIN data' =>
                   data'[call[c].fid].last_value
                     = Some(Commanded(call[c].fid, call[c].op))]_vars

\* turn_on was acknowledged and the entry of the switch reads state_on
C21_Witness ==
    \E c \in Callers :
        /\ call[c].pc = "idle" /\ call[c].op = "turn_on"
        /\ call[c].res = "ok"
        /\ 1 \in DOMAIN data /\ data[1].last_value = Some(255)

\* C22: whenever a refresh cycle publishes, the last_value of every entry,
\* a patched one included, is the value of the sample that this cycle's
\* merge retained for the entry's topic, and is absent when the merge
\* retained none, whatever the activation did before or during the cycle.
C22_RefreshOverridesPatch ==
    [][CycleCompletes =>
          \A f \in DOMAIN data' :
              LET t == data'[f].topic_read
              IN  IF t \in DOMAIN status_by_topic'
                  THEN data'[f].last_value =
                         IF "value" \in DOMAIN status_by_topic'[t]
                         THEN status_by_topic'[t].value ELSE None
                  ELSE data'[f].last_value = None]_vars

\* the only activation, a turn_on, was acknowledged, and the snapshot
\* published afterwards reads the value 0 of the cycle's sample
C22_Witness ==
    \E c \in Callers :
        /\ call[c].pc = "idle" /\ call[c].op = "turn_on"
        /\ call[c].res = "ok"
        /\ \A d \in Callers \ {c} : call[d].op = "none"
        /\ cycles = 1 /\ cycle = "idle" /\ last_update = "ok"
        /\ Len(status_batch) = 1 /\ status_batch[1].topic = Some(TopicA)
        /\ 1 \in DOMAIN data /\ data[1].last_value = Some(0)

\* C23: the steps of a cycle happen in order and once: the list request is
\* issued when the cycle starts; the telemetry request is issued only when
\* the list has been received and filtered into a non-empty topic list; the
\* snapshot changes only when the cycle returns its result, which is either
\* on receiving the telemetry or on receiving a list of which no record
\* survives; no step goes back to an earlier one.
C23_StepsInOrder ==
    [][/\ cycle' # cycle =>
             << cycle, cycle' >> \in
                 {<< "idle", "list" >>, << "list", "status" >>,
                  << "list", "idle" >>, << "status", "idle" >>}
       /\ (cycle = "idle" /\ cycle' = "list") =>
             /\ gateway' = "pending"
             /\ functionx_raw' = << >> /\ status_batch' = << >>
       /\ (cycle = "list" /\ cycle' = "status") =>
             /\ gateway = "pending" /\ gateway' = "pending"
             /\ Survivors(functionx_raw') # {}
             /\ topics' # << >>
             /\ status_batch' = << >>
       /\ data' # data =>
             /\ CycleCompletes
             /\ gateway = "pending"
             /\ \/ cycle = "status"
                \/ cycle = "list" /\ Survivors(functionx_raw') = {}
       /\ cycle' = cycle =>
             /\ topics' = topics /\ functionx_raw' = functionx_raw
             /\ status_batch' = status_batch]_vars

\* a cycle has gone through the list, the telemetry and the publication
C23_Witness ==
    /\ cycles = 1 /\ cycle = "idle" /\ last_update = "ok"
    /\ functionx_raw = << FnSwitch, FnSensor >>
    /\ Len(status_batch) = 2
    /\ 2 \in DOMAIN data /\ data[2].last_value = Some(7)

\* C24: a function that survives the filter is present in the published
\* snapshot whether or not a sample arrived; an entry for whose topic no
\* sample arrived has neither a last value nor a last timestamp; a listed
\* function is absent from the snapshot only if no record of it survived
\* the filter, and the snapshot holds no function that is not listed.
C24_UnsampledEntryPresent ==
    [][CycleCompletes =>
          LET raw == functionx_raw'
              batch == status_batch'
          IN  /\ \A i \in Survivors(raw) : raw[i].id \in DOMAIN data'
              /\ \A f \in DOMAIN data' :
                    /\ \E i \in Survivors(raw) : raw[i].id = f
                    /\ SamplesOf(batch, data'[f].topic_read) = {} =>
                          /\ data'[f].last_value = None
                          /\ data'[f].last_timestamp = None
              /\ \A i \in 1 .. Len(raw) :
                    raw[i].id \notin DOMAIN data' =>
                       \/ ~ is_exposed_to_ha(raw[i].meta)
                       \/ ~ HasTopic(raw[i])
                       \/ \E j \in (i + 1) .. Len(raw) :
                             /\ j \in Survivors(raw)
                             /\ raw[j].meta.topic_read
                                  = raw[i].meta.topic_read]_vars

\* the sensor has its sample, the switch has none and is present without a
\* value
C24_Witness ==
    /\ cycle = "idle" /\ last_update = "ok" /\ cycles = 1
    /\ functionx_raw = << FnSwitch, FnSensor >>
    /\ status_batch = << [topic |-> Some(TopicB), value |-> Some(7),
                          timestamp |-> Some(1)] >>
    /\ DOMAIN data = {1, 2}
    /\ data[1].last_value = None /\ data[1].last_timestamp = None
    /\ data[2].last_value = Some(7)

\* ------------------------------------------------------------------------
\* Properties of the gateway
\* ------------------------------------------------------------------------
\* the three causes of failure: transport, timeout, a status of 400 or more
ThreeCauses(x) ==
    \/ x.kind \in {"client_error", "timeout"}
    \/ x.kind = "response" /\ x.status >= 400

\* a response that is accepted but does not parse to a list
Malformed(x) ==
    /\ x.kind = "response" /\ x.status < 400
    /\ (IF x.json THEN x.body.tag ELSE "not a list") # "list"

\* the request the cycle is waiting for, should the session do x with it
Awaited(x) ==
    IF cycle = "list" THEN async_list_functionx(InstallationId, x)
    ELSE async_get_status_for_topics(InstallationId, topics, x)

\* the URL of the request the cycle is waiting for
AwaitedUrl ==
    with_path(IF cycle = "list" THEN PATH_FUNCTIONX_LIST(InstallationId)
              ELSE PATH_STATUS(InstallationId))

\* C25: a gateway request that meets a transport failure, exceeds the
\* timeout or receives a status of 400 or more raises IoTOpenApiError: it
\* returns no value and raises no error of another kind.
C25_FailuresRaiseApiError ==
    /\ gateway = "pending" =>
          \A x \in Exchanges : ThreeCauses(x) => Awaited(x).raised
    /\ (gateway = "error" /\ ThreeCauses(exchange)) =>
          /\ api_error # None
          /\ api_error[1].class = "IoTOpenApiError"

\* the status request has run into the timeout
C25_Witness ==
    /\ cycle = "status" /\ gateway = "error"
    /\ exchange = TimeoutExchange
    /\ api_error # None

\* C26: in the three failure cases the raised error carries the URL of the
\* request, and for a status of 400 or more the text of the response body
\* as well.
C26_ErrorCarriesUrl ==
    (gateway = "error" /\ ThreeCauses(exchange)) =>
       /\ api_error # None
       /\ Carries(api_error[1].message, AwaitedUrl)
       /\ exchange.kind = "response" =>
             Carries(api_error[1].message, << exchange.text >>)

\* C27: a response that is not a list makes the gateway raise an error of a
\* kind other than the kind of the transport and HTTP errors; it is not
\* turned into a list, and the cycle that received it ends as a failure
\* with the snapshot unchanged.
C27_MalformedIsDistinctError ==
    [][/\ (gateway = "pending" /\ gateway' = "error"
           /\ Malformed(exchange')) =>
             /\ api_error' # None
             /\ \A x \in Exchanges :
                   ThreeCauses(x) =>
                      Awaited(x).error[1].class # api_error'[1].class
       /\ gateway = "pending" =>
             \A x \in Exchanges : Malformed(x) => Awaited(x).raised
       /\ (gateway = "error" /\ Malformed(exchange) /\ cycle' = "idle") =>
             /\ data' = data
             /\ last_update' # "ok"]_vars

\* ------------------------------------------------------------------------
\* Properties of the visibility rule
\* ------------------------------------------------------------------------
FlagKeys == {"ha.disabled", "ha.hidden"}
TruthyWords == {STR_1, STR_true, STR_yes, STR_on}

\* v is one of the words, letter case apart
IsWord(v) == Lower(v) \in TruthyWords

\* v is one of the words, letter case apart, between any number of blanks
IsPaddedWord(v) ==
    \E a, b \in 0 .. Len(v) :
        /\ a + b <= Len(v)
        /\ \A i \in 1 .. a : v[i] = " "
        /\ \A i \in (Len(v) - b + 1) .. Len(v) : v[i] = " "
        /\ IsWord(SubSeq(v, a + 1, Len(v) - b))

\* C28 as stated: a record is kept from Home Assistant exactly when the value
\* of ha.disabled or of ha.hidden is one of "1", "true", "yes", "on", letter
\* case apart; every other meta is visible.
C28_HiddenExactlyOnWords ==
    \A i \in 1 .. Len(functionx_raw) :
        LET meta == functionx_raw[i].meta
        IN  ~ is_exposed_to_ha(meta)
              <=> \E k \in FlagKeys : k \in DOMAIN meta /\ IsWord(meta[k])

\* C28 amended: a record is kept from Home Assistant exactly when the value
\* of ha.disabled or of ha.hidden, with the blanks around it removed, is one
\* of "1", "true", "yes", "on", letter case apart; every other meta is
\* visible, a meta with neither key and an empty meta included.
C28_HiddenExactlyOnPaddedWords ==
    \A i \in 1 .. Len(functionx_raw) :
        LET meta == functionx_raw[i].meta
        IN  ~ is_exposed_to_ha(meta)
              <=> \E k \in FlagKeys :
                     k \in DOMAIN meta /\ IsPaddedWord(meta[k])

\* the list with the record hidden by " ON " has been filtered and published
C28_Witness ==
    /\ cycle = "idle" /\ last_update = "ok" /\ cycles = 1
    /\ functionx_raw = << FnHiddenOn, FnShown >>
    /\ DOMAIN data = {7}

\* ------------------------------------------------------------------------
\* Properties of the write topic
\* ------------------------------------------------------------------------
\* the prefix: the one derived from the MQTT username if there is one, the
\* installation id otherwise
PrefixOf(f) ==
    LET derived == mqtt_prefix(mqttConfigured, mqtt_username)
    IN  IF derived # None THEN derived[1]
        ELSE Decimal(data[f].installation_id)

\* meta.topic_write, empty when the key is absent
TopicWriteOf(f) ==
    IF "topic_write" \in DOMAIN data[f].meta
    THEN data[f].meta.topic_write ELSE << >>

LooksQualified(t) == t # << >> /\ IsDigit(t[1]) /\ Contains(t, << "/" >>)

\* t is s without the blanks around it
IsTrimmed(s, t) ==
    /\ \E a, b \in 0 .. Len(s) :
          /\ a + b <= Len(s)
          /\ \A i \in 1 .. a : s[i] = " "
          /\ \A i \in (Len(s) - b + 1) .. Len(s) : s[i] = " "
          /\ t = SubSeq(s, a + 1, Len(s) - b)
    /\ t # << >> => t[1] # " " /\ t[Len(t)] # " "

\* t is s without the "/" in front of it
IsUnrooted(s, t) ==
    /\ \E a \in 0 .. Len(s) :
          /\ \A i \in 1 .. a : s[i] = "/"
          /\ t = SubSeq(s, a + 1, Len(s))
    /\ t # << >> => t[1] # "/"

\* C29 as stated: the command topic of a switch is meta.topic_write
\* unchanged if that starts with a digit and contains "/"; otherwise, if
\* meta.topic_write is not empty, "<prefix>/<topic_write>"; otherwise
\* "<prefix>/set/<topic_read>".
C29_TopicSetAsStated ==
    \A f \in DOMAIN switches :
        LET w == TopicWriteOf(f)
        IN  switches[f].topic_set =
              IF LooksQualified(w) THEN w
              ELSE IF w # << >> THEN PrefixOf(f) \o << "/" >> \o w
              ELSE PrefixOf(f) \o << "/", "s", "e", "t", "/" >>
                     \o data[f].topic_read

\* C29 amended: with w the meta.topic_write without the blanks around it,
\* the command topic is w unchanged if w starts with a digit and contains
\* "/"; otherwise, if w is not empty, the prefix, "/" and w without the "/"
\* in front of it; otherwise the prefix, "/set/" and topic_read without the
\* "/" in front of it.
C29_TopicSetTrimmed ==
    \A f \in DOMAIN switches :
        \E w \in {SubSeq(TopicWriteOf(f), i, j) :
                      i \in 1 .. Len(TopicWriteOf(f)) + 1,
                      j \in 0 .. Len(TopicWriteOf(f))} :
            /\ IsTrimmed(TopicWriteOf(f), w)
            /\ IF LooksQualified(w) THEN switches[f].topic_set = w
               ELSE \E s \in {w, data[f].topic_read} :
                      \E t \in {SubSeq(s, i, Len(s)) : i \in 1 .. Len(s) + 1} :
                          /\ IsUnrooted(s, t)
                          /\ IF w # << >>
                             THEN /\ s = w
                                  /\ switches[f].topic_set
                                       = PrefixOf(f) \o << "/" >> \o t
                             ELSE /\ s = data[f].topic_read
                                  /\ switches[f].topic_set
                                       = PrefixOf(f)
                                           \o << "/", "s", "e", "t", "/" >>
                                           \o t

\* a switch whose topic_write starts with "/" has been set up without a
\* derived prefix
C29_Witness ==
    /\ "switch" \in loaded
    /\ 1 \in DOMAIN switches /\ 1 \in DOMAIN data
    /\ ~ mqttConfigured
    /\ TopicWriteOf(1) = << "/", "s", "/", "x" >>
    /\ switches[1].topic_set = << "5", "5", "/", "s", "/", "x" >>

\* C30: every snapshot holds at most one entry per function id, stored under
\* the key that is the entry's own function_id, also for a list in which two
\* surviving records with different topics carry the same id; of those two
\* records one is published.
C30_OneEntryPerFunctionId ==
    /\ \A f \in DOMAIN data : data[f].function_id = f
    /\ \A f, g \in DOMAIN data :
          data[f].function_id = data[g].function_id => f = g
    /\ (cycle = "idle" /\ last_update = "ok" /\ cycles > 0) =>
          Cardinality(DOMAIN data)
            = Cardinality({functionx_raw[i].id : i \in Survivors(functionx_raw)})

\* the list with two surviving records of id 2 has been published
C30_Witness ==
    /\ cycle = "idle" /\ last_update = "ok" /\ cycles = 1
    /\ functionx_raw = << FnSensor, FnSensorTwin >>
    /\ DOMAIN data = {2}
    /\ data[2].topic_read = TopicA

\* ------------------------------------------------------------------------
\* Properties of concurrent publishes and of the connection state
\* ------------------------------------------------------------------------
\* the publish of caller c has passed async_connect and is in the executor
InPublish(c) == call[c].pc \in {"pub_exec", "pub_wait"}

\* C31: publishes in flight at the same time are independent: a step of one
\* publish, its failure included, changes nothing of another caller's call,
\* and a publish ends with the outcome of its own return code, successful
\* exactly when its own message was accepted and acknowledged.
C31_PublishesIndependent ==
    [][\A c \in Callers :
          (InPublish(c) /\ call'[c] # call[c]) =>
             /\ \A d \in Callers \ {c} : call'[d] = call[d]
             /\ Ends(c) =>
                   /\ call[c].pc = "pub_wait"
                   /\ call'[c].res =
                        IF call[c].rc = Some("MQTT_ERR_SUCCESS")
                        THEN "ok" ELSE "publish_error"
                   /\ call'[c].res = "ok" => call'[c].acked]_vars

\* two publishes wait for their acknowledgments, one of them not accepted
C31_Witness ==
    \E c, d \in Callers :
        /\ c # d
        /\ call[c].op = "publish" /\ call[c].pc = "pub_wait"
        /\ call[c].rc = Some("MQTT_ERR_QUEUE_SIZE")
        /\ call[d].op = "publish" /\ call[d].pc = "pub_wait"
        /\ call[d].rc = Some("MQTT_ERR_SUCCESS")
        /\ link = "up" /\ loopRunning

C33_ConnectedOnlyDuringAttempt ==
    [][(~ connected /\ connected') => \E c \in Callers : InAttempt(c)]_vars

\* a disconnect() has returned and its caller has made no call since
DisconnectReturned ==
    \E d \in Callers :
        /\ call[d].op = "disconnect" /\ call[d].pc = "idle"
        /\ call[d].res = "ok"

\* C34: when disconnect() returns the channel is Disconnected, and from then
\* on it becomes Connected only as the success of a connect attempt, that
\* is, while a caller of connect() is waiting for the acknowledgment.
C34_DisconnectedAfterDisconnect ==
    [][/\ \A c \in Callers :
             (Ends(c) /\ call[c].op = "disconnect") => ~ connected'
       /\ (DisconnectReturned /\ ~ connected /\ connected') =>
             \E c \in Callers : call[c].pc = "ack_wait"]_vars

\* ------------------------------------------------------------------------
\* Further properties of switch activations
\* ------------------------------------------------------------------------
\* caller c takes a step of an activation
ActivationStepOf(c) == call'[c] # call[c] /\ call'[c].op \in ActivationOps

\* C35: without a command-channel client the switches are read-only: an
\* activation does nothing to the channel and leaves the snapshot, the
\* last_value of every entry included, as it was.
C35_ReadOnlyWithoutClient ==
    [][\A c \in Callers :
          (~ mqttConfigured /\ ActivationStepOf(c)) =>
             /\ UNCHANGED chanVars
             /\ data' = data]_vars

\* ------------------------------------------------------------------------
\* Properties of the config entries
\* ------------------------------------------------------------------------
\* C36: when the unload of an entry succeeds and no other entry has data in
\* the registry, nothing of the domain remains in hass.data.
C36_DomainDataRemoved ==
    [][\A e \in EntryIds :
          (/\ entry_state[e] = "unloading"
           /\ entry_state'[e] = "not_loaded"
           /\ \A f \in EntryIds \ {e} :
                 entry_state'[f] \in {"not_loaded", "setup_retry"})
          => hass_data' = None]_vars

\* ------------------------------------------------------------------------
\* Properties of the switch entity
\* ------------------------------------------------------------------------
\* C37: right after a successful turn_on of a switch whose function is in
\* the snapshot is_on reads true, and right after a successful turn_off it
\* reads false, whatever the switch's on and off values are.
C37_IsOnFollowsActivation ==
    [][\A c \in Callers :
          (/\ Ends(c)
           /\ call'[c].op \in ActivationOps
           /\ call'[c].res = "ok"
           /\ call[c].fid \in DOMAIN data')
          => is_on(data', switches'[call[c].fid], call[c].fid)
               = (call'[c].op = "turn_on")]_vars

\* the snapshot differs from the one before at most in last_value of the
\* entry of function f
OnlyLastValueOf(f) ==
    /\ DOMAIN data' = DOMAIN data
    /\ \A g \in DOMAIN data :
          IF g = f
          THEN [data'[g] EXCEPT !.last_value = data[g].last_value] = data[g]
          ELSE data'[g] = data[g]

\* C38: every step of a switch activation, from its start to its end, changes
\* at most last_value of the snapshot entry of the switch's own function; no
\* entry is added or removed, no other field and no other entry changes, and
\* nothing changes when the function is not in the snapshot.
C38_ActivationFrame ==
    [][/\ \A c \in Callers : \A f \in DOMAIN switches :
             (async_turn_on(c, f) \/ async_turn_off(c, f))
                => OnlyLastValueOf(f)
       /\ \A c \in Callers :
             (/\ call[c].pc # "idle"
              /\ call[c].op \in ActivationOps
              /\ call'[c] # call[c])
             => /\ OnlyLastValueOf(call[c].fid)
                /\ call[c].fid \notin DOMAIN data => data' = data]_vars

\* a turn_on has ended and the entry keeps the time of the sample that a
\* refresh gave it
C38_Witness ==
    \E c \in Callers :
        /\ call[c].pc = "idle" /\ call[c].op = "turn_on"
        /\ call[c].res = "ok"
        /\ cycle = "idle"
        /\ 1 \in DOMAIN data
        /\ data[1].last_value = Some(255)
        /\ data[1].last_timestamp = Some(1)

\* a turn_on has ended after a refresh removed the switch's function
C38_WitnessGone ==
    \E c \in Callers :
        /\ call[c].pc = "idle" /\ call[c].op = "turn_on"
        /\ call[c].res = "ok"
        /\ 1 \notin DOMAIN data

\* ------------------------------------------------------------------------
\* Properties of the client instance
\* ------------------------------------------------------------------------
\* C39: in every connect attempt _blocking_connect calls client.tls_set()
\* only on a client that has no TLS configuration yet, and calls
\* client.loop_start() only while no network loop is running.
C39_TlsAndLoopSetUpOnce ==
    [][\A c \in Callers :
          (call[c].pc = "handshake" /\ call'[c] # call[c])
          => /\ useTls => ~ tlsConfigured
             /\ call'[c].pc = "ack_wait" => ~ loopRunning]_vars

\* ------------------------------------------------------------------------
\* Properties of the samples behind a snapshot
\* ------------------------------------------------------------------------
\* the field of a sample of the response, None when the key is absent
OfSample(sample, key) == IF key \in DOMAIN sample THEN sample[key] ELSE None

\* the sample carries the topic of one of the functions that survived
OfSurvivingTopic(sample, fbt) ==
    /\ "topic" \in DOMAIN sample
    /\ \E i \in 1 .. Len(fbt) : sample.topic = Some(fbt[i].topic)

\* the samples of batch that carry the topic of a surviving function
RECURSIVE OwnSamples(_, _)
OwnSamples(batch, fbt) ==
    IF batch = << >> THEN << >>
    ELSE IF OfSurvivingTopic(Head(batch), fbt)
         THEN << Head(batch) >> \o OwnSamples(Tail(batch), fbt)
         ELSE OwnSamples(Tail(batch), fbt)

\* C40: in the snapshot a completed cycle publishes, every entry has value
\* and timestamp of one and the same sample of this cycle's response that
\* carries the entry's topic_read (both absent when there is none), and the
\* snapshot is the one the response gives without its samples that have no
\* topic or the topic of no surviving function.
C40_ValueAndStampOfOneSample ==
    [][CycleCompletes =>
          LET batch == status_batch'
              fbt == function_by_topic
          IN  /\ \A f \in DOMAIN data' :
                    LET S == SamplesOf(batch, data'[f].topic_read)
                    IN  IF S = {}
                        THEN /\ data'[f].last_value = None
                             /\ data'[f].last_timestamp = None
                        ELSE \E k \in S :
                               /\ data'[f].last_value
                                    = OfSample(batch[k], "value")
                               /\ data'[f].last_timestamp
                                    = OfSample(batch[k], "timestamp")
              /\ data' = BuildResult(fbt,
                            MergeStatus(OwnSamples(batch, fbt),
                                        EmptyStatus).status_by_topic,
                            << >>)]_vars

\* the switch has value and time of its own later sample; the sample without
\* topic came with it and left no trace
C40_Witness ==
    /\ cycle = "idle" /\ last_update = "ok" /\ cycles = 1
    /\ functionx_raw = << FnSwitch >>
    /\ status_batch
         = << [value |-> Some(8), timestamp |-> Some(9)],
              [topic |-> Some(TopicA), value |-> Some(5),
               timestamp |-> Some(2)] >>
    /\ DOMAIN data = {1}
    /\ data[1].last_value = Some(5)
    /\ data[1].last_timestamp = Some(2)

\* the sensor's sample came alone and the switch, whose topic it does not
\* carry, has neither value nor time
C40_WitnessForeign ==
    /\ cycle = "idle" /\ last_update = "ok" /\ cycles = 1
    /\ functionx_raw = << FnSwitch >>
    /\ status_batch = << [topic |-> Some(TopicB), value |-> Some(7),
                          timestamp |-> Some(1)] >>
    /\ DOMAIN data = {1}
    /\ data[1].last_value = None
    /\ data[1].last_timestamp = None

====
